---- MODULE Spec2Model ----
(***************************************************************************)
(* zd-cli: the local response cache (internal/cache), the API client that  *)
(* reads through it and invalidates it on writes (internal/client), the    *)
(* cache-key derivation, and the OAuth authorization-code flow             *)
(* (internal/auth).                                                        *)
(*                                                                         *)
(* Byte strings are sequences of tokens.  A token is either one byte or an *)
(* atomic run of bytes the code never splits.                              *)
(***************************************************************************)
EXTENDS Integers, Sequences, FiniteSets, TLC

VARIABLES
    files,        \* the cache directory: file path -> file content
    now,          \* the wall clock
    last,         \* the record of the last cache or client operation
    reqA, reqB,   \* two logical read requests
    keyA, keyB,   \* the cache keys derived for them
    mainPc,       \* where PerformOAuthFlow is
    listening,    \* whether the callback listener accepts requests
    codeChan,     \* the buffered channel of authorization codes
    errChan,      \* the buffered channel of errors
    handlers,     \* the goroutines that have a channel send to do
    arrivals,     \* the number of callback requests received
    resolved,     \* how many times the select has been resolved
    resolvedBy,   \* the case of the select that was taken
    received,     \* the value the select received
    shutdownCtx,  \* the context server.Shutdown was called with
    exchanges,    \* the number of token exchanges attempted
    outcomes,     \* the outcomes PerformOAuthFlow has returned
    ctxDone,      \* whether the caller's context is cancelled
    timerFired,   \* whether the five-minute timer has fired
    mismatchSeen, \* whether a callback with a foreign state was received
    codeSeen,     \* whether a callback with the issued state and a code came
    listCall,     \* the last list call and the request it sent
    retry,        \* the state of one RetryWithBackoff call
    apiCall,      \* the last Client operation that got an HTTP response
    built,        \* the last NewClientWithCache call and what it returned
    run,          \* the last command run and the stored configuration
    userDelete,   \* the last run of the user delete command
    ticketWrite,  \* the last ticket write command and the body it sent
    roundTrip,    \* a read and the read of the same request after it
    wire,         \* a client and the requests it has sent
    conc,         \* the file of one key on disk and the calls working on it
    shared,       \* the instance that stored each entry, and the last read
    frame,        \* a write and the cache before and after it
    fill,         \* the last read, its response and the entries it changed
    readRun,      \* the reads of one request with and without --refresh
    cli,          \* one run of setupOAuth or runReauth and its deadlines
    flows,        \* the OAuth flows started and the callbacks they accepted
    parsed,       \* the last ParseAPIError call and the error it returned
    config        \* a Config and the last method called on it

cacheVars == <<files, now, last>>
keyVars   == <<keyA, keyB, reqA, reqB>>
oauthVars == <<mainPc, listening, codeChan, errChan, handlers, arrivals,
               resolved, resolvedBy, received, shutdownCtx, exchanges,
               outcomes, ctxDone, timerFired, mismatchSeen, codeSeen>>
extVars   == <<listCall, retry, apiCall, built, run>>
runVars   == <<readRun, cli, flows, parsed, config>>
cmdVars   == <<userDelete, ticketWrite, roundTrip, wire, conc, shared,
               frame, fill, runVars>>
vars      == <<cacheVars, keyVars, oauthVars, extVars, cmdVars>>

(***************************************************************************)
(* Bounds of the model.                                                    *)
(***************************************************************************)
\* the clock runs over 0..MaxTime
MaxTime == 3
\* the TTL of the modelled Cache instance, in clock ticks (c.ttl)
TTL == 1

Nil == <<>>
None == "none"

(***************************************************************************)
(* encoding/json as the cache and the client use it, over the token        *)
(* alphabet                                                                *)
(*   "{"  "}"      object delimiters                                       *)
(*   "r:"          the member name of the response's resource field        *)
(*   "v1" "v2"     the member  "v":1  resp.  "v":2  of a resource          *)
(*   "1"           a number                                                *)
(*   "s<"          the string literal  "<"                                 *)
(*   "sE"          the string literal  "<"  (the same string, escaped)*)
(*   " "           insignificant white space                               *)
(*   "e1"          the members  "items":[{"v":1}],"next_page":"p","count":1 *)
(*                 of a list envelope                                      *)
(*   "e<" "eE"     the members  "items":[{"v":2}],"next_page":"<","count":2 *)
(*                 with the string written plainly resp. escaped           *)
(*   "eX"          the members  "items":[{"v":1}],"count":"x"               *)
(*   "x"           a byte that starts no JSON value                        *)
(***************************************************************************)
Tokens == {"{", "}", "r:", "v1", "v2", "1", "s<", "sE", " ", "x",
           "e1", "e<", "eE", "eX"}

\* the runs of members of a list envelope
EnvelopeTokens == {"e1", "e<", "eE", "eX"}

RECURSIVE SkipWs(_, _)
SkipWs(b, i) ==
    IF i <= Len(b) /\ b[i] = " " THEN SkipWs(b, i + 1) ELSE i

\* index after the JSON value that starts at b[i], 0 when there is none
RECURSIVE ParseCore(_, _)
ParseCore(b, i) ==
    IF i > Len(b) THEN 0
    ELSE IF b[i] \in {"1", "s<", "sE"} THEN i + 1
    ELSE IF b[i] = "{" THEN
        LET j == SkipWs(b, i + 1) IN
        IF j > Len(b) THEN 0
        ELSE IF b[j] = "}" THEN j + 1
        ELSE LET m == IF b[j] \in {"v1", "v2"} \cup EnvelopeTokens THEN j + 1
                      ELSE IF b[j] = "r:" THEN ParseCore(b, SkipWs(b, j + 1))
                      ELSE 0
                 k == SkipWs(b, m)
             IN IF m # 0 /\ k <= Len(b) /\ b[k] = "}" THEN k + 1 ELSE 0
    ELSE 0

\* json.Valid: one value, surrounded by white space only
Valid(b) ==
    LET e == ParseCore(b, SkipWs(b, 1))
    IN  e # 0 /\ SkipWs(b, e) = Len(b) + 1

\* json.Marshal of a RawMessage: appendCompact with escapeHTML
RECURSIVE Compact(_)
Compact(b) ==
    IF b = <<>> THEN <<>>
    ELSE LET h == Head(b) IN
         (IF h = " " THEN <<>>
          ELSE IF h = "s<" THEN <<"sE">>
          ELSE IF h = "e<" THEN <<"eE">>
          ELSE <<h>>)
         \o Compact(Tail(b))

(***************************************************************************)
(* internal/cache: the directory is a function from file paths to file     *)
(* contents.  A file holds either a parseable Entry envelope or bytes that *)
(* json.Unmarshal rejects (Corrupt).                                       *)
(***************************************************************************)
Entry(data, created, expires) ==
    [ok |-> TRUE, data |-> data, created_at |-> created,
     expires_at |-> expires]

\* the content of a file that json.Unmarshal cannot parse into an Entry
Corrupt == [ok |-> FALSE, data |-> <<>>, created_at |-> 0, expires_at |-> 0]

\* sha256 hex digest of the key plus ".json": one file name per key
keyToPath(key) == <<"sha256">> \o key \o <<".json">>

Remove(fs, path) == [p \in (DOMAIN fs) \ {path} |-> fs[p]]

WriteFile(fs, path, content) ==
    [p \in (DOMAIN fs) \cup {path} |-> IF p = path THEN content ELSE fs[p]]

\* time.Now().After(entry.ExpiresAt)
After(t, u) == t > u

\* Get without the clean-up of unusable entries
Get_KeepStale(fs, t, key) ==
    LET path == keyToPath(key) IN
    IF path \notin DOMAIN fs \/ ~fs[path].ok
       \/ After(t, fs[path].expires_at)
    THEN [data |-> Nil, found |-> FALSE, files |-> fs]
    ELSE [data |-> fs[path].data, found |-> TRUE, files |-> fs]

Get(fs, t, key) ==
    LET path == keyToPath(key) IN
    IF path \notin DOMAIN fs
    THEN [data |-> Nil, found |-> FALSE, files |-> fs]
    ELSE IF ~fs[path].ok
    THEN [data |-> Nil, found |-> FALSE, files |-> Remove(fs, path)]
    ELSE IF After(t, fs[path].expires_at)
    THEN [data |-> Nil, found |-> FALSE, files |-> Remove(fs, path)]
    ELSE [data |-> fs[path].data, found |-> TRUE, files |-> fs]

\* writeOK: whether os.WriteFile succeeds
Set(fs, t, key, data, writeOK) ==
    IF ~Valid(data) THEN [err |-> TRUE, files |-> fs]
    ELSE IF ~writeOK THEN [err |-> TRUE, files |-> fs]
    ELSE [err |-> FALSE,
          files |-> WriteFile(fs, keyToPath(key),
                              Entry(Compact(data), t, t + TTL))]

Delete(fs, key) ==
    LET path == keyToPath(key) IN
    [err |-> FALSE,
     files |-> IF path \in DOMAIN fs THEN Remove(fs, path) ELSE fs]

\* Clear that skips a file it cannot remove and reports success
Clear_IgnoreFailure(fs, removed) ==
    [err |-> FALSE, files |-> [p \in (DOMAIN fs) \ removed |-> fs[p]]]

\* removed: the files deleted before os.Remove failed on one of the others;
\* the whole directory when no removal fails
Clear(fs, removed) ==
    [err |-> removed # DOMAIN fs,
     files |-> [p \in (DOMAIN fs) \ removed |-> fs[p]]]

PruneExpired(fs, t) ==
    [err |-> FALSE,
     files |-> [p \in {q \in DOMAIN fs :
                          /\ fs[q].ok
                          /\ ~After(t, fs[q].expires_at)} |-> fs[p]]]

(***************************************************************************)
(* Cache keys: fmt.Sprintf over the subdomain, the ids, the page numbers   *)
(* and the free-text filters.  Strings are token sequences; %d prints the  *)
(* decimal digits.                                                         *)
(***************************************************************************)
Digit(d) == <<"0", "1", "2", "3", "4", "5", "6", "7", "8", "9">>[d + 1]

RECURSIVE Itoa(_)
Itoa(n) ==
    IF n < 0 THEN <<"-">> \o Itoa(0 - n)
    ELSE IF n < 10 THEN <<Digit(n)>>
    ELSE Itoa(n \div 10) \o <<Digit(n % 10)>>

Colon == <<":">>

Request(op, sub, id, page, perPage, status, query) ==
    [op |-> op, sub |-> sub, id |-> id, page |-> page, perPage |-> perPage,
     status |-> status, query |-> query]

CacheKey(r) ==
    CASE r.op \in {"GetMe", "GetCurrentUser"} ->
            r.sub \o <<":", "users", ":", "me">>
      [] r.op = "ListUsers" ->
            r.sub \o <<":", "users", ":", "list", ":">> \o Itoa(r.page)
                  \o Colon \o Itoa(r.perPage)
      [] r.op = "SearchUsers" ->
            r.sub \o <<":", "users", ":", "search", ":">> \o r.query
      [] r.op = "GetUser" ->
            r.sub \o <<":", "users", ":">> \o Itoa(r.id)
      [] r.op = "ListTickets" ->
            r.sub \o <<":", "tickets", ":", "list", ":">> \o Itoa(r.page)
                  \o Colon \o Itoa(r.perPage) \o Colon \o r.status
      [] r.op = "GetTicket" ->
            r.sub \o <<":", "tickets", ":">> \o Itoa(r.id)
      [] r.op = "GetTicketComments" ->
            r.sub \o <<":", "tickets", ":">> \o Itoa(r.id)
                  \o <<":", "comments">>
      [] r.op = "SearchTickets" ->
            r.sub \o <<":", "tickets", ":", "search", ":">> \o r.query
      [] r.op = "ListOrganizations" ->
            r.sub \o <<":", "organizations", ":", "list", ":">>
                  \o Itoa(r.page) \o Colon \o Itoa(r.perPage)
      [] r.op = "GetOrganization" ->
            r.sub \o <<":", "organizations", ":">> \o Itoa(r.id)
      [] r.op = "SearchOrganizations" ->
            r.sub \o <<":", "organizations", ":", "search", ":">> \o r.query
      [] r.op = "GetOrganizationUsers" ->
            r.sub \o <<":", "organizations", ":">> \o Itoa(r.id)
                  \o <<":", "users", ":">> \o Itoa(r.page)
                  \o Colon \o Itoa(r.perPage)
      [] r.op = "GetOrganizationTickets" ->
            r.sub \o <<":", "organizations", ":">> \o Itoa(r.id)
                  \o <<":", "tickets", ":">> \o Itoa(r.page)
                  \o Colon \o Itoa(r.perPage)
      [] r.op = "ListGroups" ->
            r.sub \o <<":", "groups", ":", "list", ":">> \o Itoa(r.page)
                  \o Colon \o Itoa(r.perPage)
      [] r.op = "GetGroup" ->
            r.sub \o <<":", "groups", ":">> \o Itoa(r.id)
      [] r.op = "GetGroupUsers" ->
            r.sub \o <<":", "groups", ":">> \o Itoa(r.id)
                  \o <<":", "users", ":">> \o Itoa(r.page)
                  \o Colon \o Itoa(r.perPage)
      [] r.op = "GetGroupMemberships" ->
            r.sub \o <<":", "groups", ":">> \o Itoa(r.id)
                  \o <<":", "memberships", ":">> \o Itoa(r.page)
                  \o Colon \o Itoa(r.perPage)

\* the single-resource key a write operation deletes
WriteKey(op, sub, id) ==
    IF op = "UpdateTicket"
    THEN sub \o <<":", "tickets", ":">> \o Itoa(id)
    ELSE sub \o <<":", "users", ":">> \o Itoa(id)

(***************************************************************************)
(* internal/client: decoding of response bodies, the read-through methods  *)
(* and the write methods.                                                  *)
(***************************************************************************)
NoResult == [ok |-> FALSE, v |-> 0, m |-> <<>>]

\* json.Unmarshal into a response struct whose resource field is a struct
\* with the integer field v; unknown members are ignored
DecodeStruct(b) ==
    IF ~Valid(b) THEN NoResult
    ELSE LET i == SkipWs(b, 1)
             j == SkipWs(b, i + 1)
             k == SkipWs(b, j + 1)
             l == SkipWs(b, k + 1)
         IN IF b[i] # "{" THEN NoResult
            ELSE IF b[j] # "r:" THEN [ok |-> TRUE, v |-> 0, m |-> <<>>]
            ELSE IF b[k] # "{" THEN NoResult
            ELSE [ok |-> TRUE,
                  v |-> IF b[l] = "v1" THEN 1 ELSE IF b[l] = "v2" THEN 2 ELSE 0,
                  m |-> <<>>]

\* json.Unmarshal into map[string]interface{}: any object, compared by value
DecodeMap(b) ==
    IF ~Valid(b) THEN NoResult
    ELSE IF b[SkipWs(b, 1)] # "{" THEN NoResult
    ELSE [ok |-> TRUE, v |-> 0, m |-> Compact(b)]

\* the items, the next-page indicator and the count a run of envelope
\* members holds; intCount: whether the count is a JSON integer
EnvelopeOf(tok) ==
    CASE tok = "e1" -> [items |-> 1, next |-> "p", count |-> 1,
                        intCount |-> TRUE]
      [] tok \in {"e<", "eE"} -> [items |-> 2, next |-> "<", count |-> 2,
                                  intCount |-> TRUE]
      [] tok = "eX" -> [items |-> 1, next |-> "", count |-> 0,
                        intCount |-> FALSE]
      [] OTHER -> [items |-> 0, next |-> "", count |-> 0, intCount |-> TRUE]

\* json.Unmarshal into a list envelope: withNext, withCount say which of
\* the fields the struct declares; a count that is no integer is an error
\* for a struct that declares Count
DecodeEnvelope(b, withNext, withCount) ==
    IF ~Valid(b) THEN NoResult
    ELSE LET i == SkipWs(b, 1)
             e == EnvelopeOf(b[SkipWs(b, i + 1)])
         IN IF b[i] # "{" THEN NoResult
            ELSE IF withCount /\ ~e.intCount THEN NoResult
            ELSE [ok |-> TRUE, v |-> e.items,
                  m |-> <<IF withNext THEN e.next ELSE "">>
                        \o (IF withCount THEN Itoa(e.count) ELSE <<>>)]

Decode(kind, b) ==
    CASE kind = "map" -> DecodeMap(b)
      [] kind = "list" -> DecodeEnvelope(b, TRUE, TRUE)
      [] kind = "search" -> DecodeEnvelope(b, FALSE, TRUE)
      [] kind = "results" -> DecodeEnvelope(b, FALSE, FALSE)
      [] OTHER -> DecodeStruct(b)

\* the methods that decode a list envelope
EnvelopeOps ==
    {"ListUsers", "SearchUsers", "ListTickets", "GetTicketComments",
     "ListOrganizations", "SearchOrganizations", "GetOrganizationUsers",
     "GetOrganizationTickets", "ListGroups", "GetGroupUsers",
     "GetGroupMemberships"}

\* the methods that return the items of the envelope only
ItemsOnlyOps ==
    {"SearchUsers", "SearchTickets", "SearchOrganizations",
     "GetTicketComments"}

\* the type each read method decodes a response body into
KindOf(op) ==
    CASE op = "GetCurrentUser" -> "map"
      [] op = "SearchTickets" -> "search"
      [] op \in EnvelopeOps -> "list"
      [] OTHER -> "struct"

\* a hit that decodes the items alone, for every method
HitKindOf_ItemsOnly(op) ==
    CASE op = "GetCurrentUser" -> "map"
      [] op \in EnvelopeOps \cup {"SearchTickets"} -> "results"
      [] OTHER -> "struct"

\* the type each read method decodes a cached entry into
HitKindOf(op) == IF op = "SearchTickets" THEN "results" ELSE KindOf(op)

\* what the method returns of the decoded value
Returned(op, d) ==
    IF d.ok /\ op \in ItemsOnlyOps THEN [d EXCEPT !.m = <<>>] ELSE d

\* config.Instance; a string field is a byte string, empty or not
Instance(sub, authType, email, apiToken, clientID, secret, token, refresh, expiry) ==
    [Subdomain |-> sub, AuthType |-> authType, Email |-> email,
     APIToken |-> apiToken, OAuthClientID |-> clientID,
     OAuthSecret |-> secret, OAuthToken |-> token, OAuthRefresh |-> refresh,
     OAuthExpiry |-> expiry]

\* each validator returns the error of the first empty field, None if none
ValidateTokenAuth(email, apiToken) ==
    IF email = <<>> THEN "email is required"
    ELSE IF apiToken = <<>> THEN "API token is required"
    ELSE None

ValidateOAuthToken(accessToken, refreshToken, expiry) ==
    IF accessToken = <<>> THEN "OAuth access token is required"
    ELSE IF refreshToken = <<>> THEN "OAuth refresh token is required"
    ELSE IF expiry = <<>> THEN "OAuth token expiry is required"
    ELSE None

ValidateOAuthConfig(clientID, clientSecret) ==
    IF clientID = <<>> THEN "OAuth client ID is required"
    ELSE IF clientSecret = <<>> THEN "OAuth client secret is required"
    ELSE None

\* base64 of  email/token:apiToken ; base64 is injective and is kept as a
\* bracket around the bytes it encodes
EncodeToken(email, apiToken) ==
    <<"b64(">> \o email \o <<"/token:">> \o apiToken \o <<")">>

NoClient ==
    [subdomain |-> <<>>, authHeader |-> <<>>, useCache |-> FALSE,
     cache |-> FALSE]

\* a constructor that checks the fields of both modes
NewClientWithCache_BothModes(instance, useCache, cacheInitOK) ==
    LET tokenErr == ValidateTokenAuth(instance.Email, instance.APIToken)
        oauthErr == IF ValidateOAuthToken(instance.OAuthToken,
                                          instance.OAuthRefresh,
                                          instance.OAuthExpiry) # None
                    THEN ValidateOAuthToken(instance.OAuthToken,
                                            instance.OAuthRefresh,
                                            instance.OAuthExpiry)
                    ELSE ValidateOAuthConfig(instance.OAuthClientID,
                                             instance.OAuthSecret)
    IN  IF instance.AuthType \notin {"token", "oauth"}
        THEN [client |-> NoClient, err |-> "unsupported auth type"]
        ELSE IF tokenErr # None THEN [client |-> NoClient, err |-> tokenErr]
        ELSE IF oauthErr # None THEN [client |-> NoClient, err |-> oauthErr]
        ELSE [client |->
                [subdomain |-> instance.Subdomain,
                 authHeader |->
                    IF instance.AuthType = "token"
                    THEN <<"Basic ">> \o EncodeToken(instance.Email,
                                                     instance.APIToken)
                    ELSE <<"Bearer ">> \o instance.OAuthToken,
                 useCache |-> useCache /\ cacheInitOK,
                 cache |-> useCache /\ cacheInitOK],
              err |-> None]

\* cacheInitOK: whether cache.New succeeds
NewClientWithCache(instance, useCache, cacheInitOK) ==
    LET tokenErr == ValidateTokenAuth(instance.Email, instance.APIToken)
        oauthErr == IF ValidateOAuthToken(instance.OAuthToken,
                                          instance.OAuthRefresh,
                                          instance.OAuthExpiry) # None
                    THEN ValidateOAuthToken(instance.OAuthToken,
                                            instance.OAuthRefresh,
                                            instance.OAuthExpiry)
                    ELSE ValidateOAuthConfig(instance.OAuthClientID,
                                             instance.OAuthSecret)
        authErr  == CASE instance.AuthType = "token" -> tokenErr
                      [] instance.AuthType = "oauth" -> oauthErr
                      [] OTHER -> "unsupported auth type"
    IN  IF authErr # None THEN [client |-> NoClient, err |-> authErr]
        ELSE [client |->
                [subdomain |-> instance.Subdomain,
                 authHeader |->
                    IF instance.AuthType = "token"
                    THEN <<"Basic ">> \o EncodeToken(instance.Email,
                                                     instance.APIToken)
                    ELSE <<"Bearer ">> \o instance.OAuthToken,
                 useCache |-> useCache /\ cacheInitOK,
                 cache |-> useCache /\ cacheInitOK],
              err |-> None]

Response(transport, status, body) ==
    [transport |-> transport, status |-> status, body |-> body]

\* a read that gives up when the entry it finds does not decode
ReadThrough_FailOnBadEntry(c, fs, t, r, resp, writeOK) ==
    LET key  == CacheKey(r)
        kind == KindOf(r.op)
        g    == IF c.useCache /\ c.cache THEN Get(fs, t, key)
                ELSE [data |-> Nil, found |-> FALSE, files |-> fs]
        hit  == g.found /\ Decode(kind, g.data).ok
        fail == [result |-> NoResult, err |-> TRUE, http |-> 1,
                 files |-> g.files]
    IN  IF hit
        THEN [result |-> Decode(kind, g.data), err |-> FALSE, http |-> 0,
              files |-> g.files]
        ELSE IF g.found THEN [fail EXCEPT !.http = 0]
        ELSE IF ~resp.transport THEN fail
        ELSE IF resp.status # 200 THEN fail
        ELSE IF ~Decode(kind, resp.body).ok THEN fail
        ELSE [result |-> Decode(kind, resp.body), err |-> FALSE, http |-> 1,
              files |-> IF c.useCache /\ c.cache
                        THEN Set(g.files, t, key, resp.body, writeOK).files
                        ELSE g.files]

\* a read that looks the entry up but fetches all the same
ReadThrough_AlwaysFetch(c, fs, t, r, resp, writeOK) ==
    LET key  == CacheKey(r)
        kind == KindOf(r.op)
        g    == IF c.useCache /\ c.cache THEN Get(fs, t, key)
                ELSE [data |-> Nil, found |-> FALSE, files |-> fs]
        ok   == resp.transport /\ resp.status = 200
                /\ Decode(kind, resp.body).ok
    IN  [result |-> IF ok THEN Decode(kind, resp.body) ELSE NoResult,
         err |-> ~ok, http |-> 1,
         files |-> IF ok /\ c.useCache /\ c.cache
                   THEN Set(g.files, t, key, resp.body, writeOK).files
                   ELSE g.files]

\* the body shared by every read method: cache lookup, live GET, cache fill
ReadThrough(c, fs, t, r, resp, writeOK) ==
    LET key  == CacheKey(r)
        g    == IF c.useCache /\ c.cache THEN Get(fs, t, key)
                ELSE [data |-> Nil, found |-> FALSE, files |-> fs]
        hit  == g.found /\ Decode(HitKindOf(r.op), g.data).ok
        live == Decode(KindOf(r.op), resp.body)
        fail == [result |-> NoResult, err |-> TRUE, http |-> 1,
                 files |-> g.files]
    IN  IF hit
        THEN [result |-> Returned(r.op, Decode(HitKindOf(r.op), g.data)),
              err |-> FALSE, http |-> 0, files |-> g.files]
        ELSE IF ~resp.transport THEN fail
        ELSE IF resp.status # 200 THEN fail
        ELSE IF ~live.ok THEN fail
        ELSE [result |-> Returned(r.op, live), err |-> FALSE, http |-> 1,
              files |-> IF c.useCache /\ c.cache
                        THEN Set(g.files, t, key, resp.body, writeOK).files
                        ELSE g.files]

GetTicket(c, fs, t, id, resp, writeOK) ==
    ReadThrough(c, fs, t,
                Request("GetTicket", c.subdomain, id, 0, 0, <<>>, <<>>),
                resp, writeOK)

GetUser(c, fs, t, id, resp, writeOK) ==
    ReadThrough(c, fs, t,
                Request("GetUser", c.subdomain, id, 0, 0, <<>>, <<>>),
                resp, writeOK)

GetMe(c, fs, t, resp, writeOK) ==
    ReadThrough(c, fs, t,
                Request("GetMe", c.subdomain, 0, 0, 0, <<>>, <<>>),
                resp, writeOK)

GetCurrentUser(c, fs, t, resp, writeOK) ==
    ReadThrough(c, fs, t,
                Request("GetCurrentUser", c.subdomain, 0, 0, 0, <<>>, <<>>),
                resp, writeOK)

\* makeTicketRequest and makeUserRequest: any 2xx status with a decodable body
makeResourceRequest(resp) ==
    IF ~resp.transport THEN [result |-> NoResult, err |-> TRUE]
    ELSE IF resp.status < 200 \/ resp.status >= 300
    THEN [result |-> NoResult, err |-> TRUE]
    ELSE IF ~DecodeStruct(resp.body).ok
    THEN [result |-> NoResult, err |-> TRUE]
    ELSE [result |-> DecodeStruct(resp.body), err |-> FALSE]

\* an invalidation that drops the comments of the ticket as well
Invalidate_WithComments(c, fs, key) ==
    IF c.cache
    THEN Delete(Delete(fs, key).files, key \o <<":", "comments">>).files
    ELSE fs

\* the invalidation every write method ends with
Invalidate(c, fs, key) == IF c.cache THEN Delete(fs, key).files ELSE fs

\* an update that invalidates before it sends the request
UpdateResource_InvalidateFirst(c, fs, op, id, resp) ==
    LET r == makeResourceRequest(resp) IN
    [result |-> r.result, err |-> r.err, http |-> 1,
     files |-> Invalidate(c, fs, WriteKey(op, c.subdomain, id))]

\* UpdateTicket, UpdateUser, SuspendUser and UnsuspendUser
UpdateResource(c, fs, op, id, resp) ==
    LET r == makeResourceRequest(resp) IN
    IF r.err THEN [result |-> NoResult, err |-> TRUE, http |-> 1, files |-> fs]
    ELSE [result |-> r.result, err |-> FALSE, http |-> 1,
          files |-> Invalidate(c, fs, WriteKey(op, c.subdomain, id))]

DeleteUser(c, fs, id, resp) ==
    IF ~resp.transport \/ resp.status \notin {200, 204}
    THEN [result |-> NoResult, err |-> TRUE, http |-> 1, files |-> fs]
    ELSE [result |-> NoResult, err |-> FALSE, http |-> 1,
          files |-> Invalidate(c, fs, WriteKey("DeleteUser", c.subdomain, id))]

(***************************************************************************)
(* The record of the last operation: what it was called with, what it saw  *)
(* and what it returned.  It is reset when time passes.                    *)
(***************************************************************************)
Lookup(fs, key) ==
    IF keyToPath(key) \in DOMAIN fs
    THEN [present |-> TRUE, content |-> fs[keyToPath(key)]]
    ELSE [present |-> FALSE, content |-> Corrupt]

NoLookup == [present |-> FALSE, content |-> Corrupt]

NoLast ==
    [op |-> None, key |-> Nil, arg |-> Nil, cacheOn |-> FALSE,
     found |-> FALSE, data |-> Nil, err |-> FALSE, http |-> 0,
     result |-> NoResult, pre |-> NoLookup, preEmpty |-> FALSE,
     preFresh |-> FALSE, preValue |-> NoResult,
     live |-> [result |-> NoResult, err |-> FALSE]]

\* a parseable entry is stored under the key and the cache does not judge
\* it expired
FreshEntry(fs, t, key) ==
    /\ keyToPath(key) \in DOMAIN fs
    /\ fs[keyToPath(key)].ok
    /\ t <= fs[keyToPath(key)].expires_at

\* the record of a Cache method called directly
CacheCall(op, key, arg, found, data, err) ==
    [NoLast EXCEPT !.op = op, !.key = key, !.arg = arg, !.cacheOn = TRUE,
                   !.found = found, !.data = data, !.err = err,
                   !.pre = IF op = "Get" THEN Lookup(files, key)
                           ELSE NoLookup,
                   !.preEmpty = (op = "Clear" /\ DOMAIN files = {})]

\* the client NewClientWithCache(instance, false) returns for the instance
\* of c
Uncached(c) == [c EXCEPT !.useCache = FALSE, !.cache = FALSE]

\* the record of a read method: the call, and what the same call answered
\* the same way returns to a cache-disabled client
ReadCall(call, liveOut) ==
    [call EXCEPT !.live = [result |-> liveOut.result, err |-> liveOut.err]]

\* the record of a Client method
ClientCall(op, c, key, out) ==
    [NoLast EXCEPT !.op = op, !.key = key, !.cacheOn = c.cache,
                   !.err = out.err, !.http = out.http,
                   !.result = out.result,
                   !.preFresh = FreshEntry(files, now, key),
                   !.preValue = IF FreshEntry(files, now, key)
                                THEN Returned(op,
                                       Decode(HitKindOf(op),
                                              files[keyToPath(key)].data))
                                ELSE NoResult]

(***************************************************************************)
(* Inputs.                                                                 *)
(***************************************************************************)
Sub == <<"a">>

Ids == {1}

\* an instance with token authentication
TokenInstance(sub) ==
    Instance(sub, "token", <<"e">>, <<"t">>, <<>>, <<>>, <<>>, <<>>, <<>>)

Clients ==
    {NewClientWithCache(TokenInstance(Sub), u, ok).client :
        u \in BOOLEAN, ok \in BOOLEAN}

\* response bodies: a resource, a resource with white space, an object
\* whose resource field is a number, and bytes that are not JSON
Bodies ==
    { <<"{", "r:", "{", "v1", "}", "}">>,
      <<"{", " ", "r:", "{", "v2", "}", "}">>,
      <<"{", "r:", "1", "}">>,
      <<"x">> }

\* a transport error, an error status, 204 without a body, 201 with a
\* resource, and 200 with each body
Responses ==
    {Response(FALSE, 0, <<>>), Response(TRUE, 404, <<"x">>),
     Response(TRUE, 204, <<>>),
     Response(TRUE, 201, <<"{", "r:", "{", "v1", "}", "}">>)}
    \cup {Response(TRUE, 200, b) : b \in Bodies}

\* payloads handed to Cache.Set directly
Payloads ==
    { <<"{", "}">>,
      <<"{", " ", "}">>,
      <<"s<">>,
      <<"1">>,
      <<"x">> }

\* the keys of the single-resource reads
ClientKeys ==
    {CacheKey(Request("GetTicket", Sub, id, 0, 0, <<>>, <<>>)) : id \in Ids}
    \cup {CacheKey(Request("GetUser", Sub, id, 0, 0, <<>>, <<>>)) : id \in Ids}

\* the keys of a ticket read and of the two current-user reads
ReadKeys ==
    {CacheKey(Request("GetTicket", Sub, id, 0, 0, <<>>, <<>>)) : id \in Ids}
    \cup {CacheKey(Request("GetMe", Sub, 0, 0, 0, <<>>, <<>>))}

CacheKeys ==
    {CacheKey(Request("GetTicket", Sub, 1, 0, 0, <<>>, <<>>)),
     CacheKey(Request("GetMe", Sub, 0, 0, 0, <<>>, <<>>))}

(***************************************************************************)
(* Environment steps shared by the cache and the client specifications.    *)
(***************************************************************************)
\* time passes
Tick ==
    /\ now < MaxTime
    /\ now' = now + 1
    /\ last' = [NoLast EXCEPT !.op = "tick"]
    /\ UNCHANGED <<files, keyVars, oauthVars, extVars, cmdVars>>

\* a file of the shared directory is damaged from outside (another process,
\* a truncated write)
CorruptFile(keys) ==
    \E key \in keys :
        /\ files' = WriteFile(files, keyToPath(key), Corrupt)
        /\ last' = [NoLast EXCEPT !.op = "external", !.key = key]
        /\ UNCHANGED <<now, keyVars, oauthVars, extVars, cmdVars>>

(***************************************************************************)
(* The Cache methods as steps (package cache used directly).               *)
(***************************************************************************)
CallSet ==
    \E key \in CacheKeys, data \in Payloads, writeOK \in BOOLEAN :
        LET out == Set(files, now, key, data, writeOK) IN
        /\ files' = out.files
        /\ last' = CacheCall("Set", key, data, FALSE, Nil, out.err)
        /\ UNCHANGED <<now, keyVars, oauthVars, extVars, cmdVars>>

CallGet ==
    \E key \in CacheKeys :
        LET out == Get(files, now, key) IN
        /\ files' = out.files
        /\ last' = CacheCall("Get", key, Nil, out.found, out.data, FALSE)
        /\ UNCHANGED <<now, keyVars, oauthVars, extVars, cmdVars>>

CallDelete ==
    \E key \in CacheKeys :
        LET out == Delete(files, key) IN
        /\ files' = out.files
        /\ last' = CacheCall("Delete", key, Nil, FALSE, Nil, out.err)
        /\ UNCHANGED <<now, keyVars, oauthVars, extVars, cmdVars>>

CallClear ==
    \E removed \in SUBSET (DOMAIN files) :
        LET out == Clear(files, removed) IN
        /\ files' = out.files
        /\ last' = CacheCall("Clear", Nil, Nil, FALSE, Nil, out.err)
        /\ UNCHANGED <<now, keyVars, oauthVars, extVars, cmdVars>>

CallPruneExpired ==
    LET out == PruneExpired(files, now) IN
    /\ files' = out.files
    /\ last' = CacheCall("PruneExpired", Nil, Nil, FALSE, Nil, out.err)
    /\ UNCHANGED <<now, keyVars, oauthVars, extVars, cmdVars>>

(***************************************************************************)
(* The Client methods as steps.  Every command invocation constructs its   *)
(* own client, with or without the cache.                                  *)
(***************************************************************************)
CallGetTicket ==
    \E c \in Clients, id \in Ids, resp \in Responses, writeOK \in BOOLEAN :
        LET out == GetTicket(c, files, now, id, resp, writeOK) IN
        /\ files' = out.files
        /\ last' = ReadCall(
                     ClientCall("GetTicket", c,
                        CacheKey(Request("GetTicket", c.subdomain, id, 0, 0,
                                         <<>>, <<>>)), out),
                     GetTicket(Uncached(c), files, now, id, resp, writeOK))
        /\ UNCHANGED <<now, keyVars, oauthVars, extVars, cmdVars>>

CallGetUser ==
    \E c \in Clients, id \in Ids, resp \in Responses, writeOK \in BOOLEAN :
        LET out == GetUser(c, files, now, id, resp, writeOK) IN
        /\ files' = out.files
        /\ last' = ReadCall(
                     ClientCall("GetUser", c,
                        CacheKey(Request("GetUser", c.subdomain, id, 0, 0,
                                         <<>>, <<>>)), out),
                     GetUser(Uncached(c), files, now, id, resp, writeOK))
        /\ UNCHANGED <<now, keyVars, oauthVars, extVars, cmdVars>>

CallGetMe ==
    \E c \in Clients, resp \in Responses, writeOK \in BOOLEAN :
        LET out == GetMe(c, files, now, resp, writeOK) IN
        /\ files' = out.files
        /\ last' = ReadCall(
                     ClientCall("GetMe", c,
                        CacheKey(Request("GetMe", c.subdomain, 0, 0, 0,
                                         <<>>, <<>>)), out),
                     GetMe(Uncached(c), files, now, resp, writeOK))
        /\ UNCHANGED <<now, keyVars, oauthVars, extVars, cmdVars>>

CallGetCurrentUser ==
    \E c \in Clients, resp \in Responses, writeOK \in BOOLEAN :
        LET out == GetCurrentUser(c, files, now, resp, writeOK) IN
        /\ files' = out.files
        /\ last' = ReadCall(
                     ClientCall("GetCurrentUser", c,
                        CacheKey(Request("GetCurrentUser", c.subdomain, 0, 0, 0,
                                         <<>>, <<>>)), out),
                     GetCurrentUser(Uncached(c), files, now, resp, writeOK))
        /\ UNCHANGED <<now, keyVars, oauthVars, extVars, cmdVars>>

CallUpdate(op) ==
    \E c \in Clients, id \in Ids, resp \in Responses :
        LET out == UpdateResource(c, files, op, id, resp) IN
        /\ files' = out.files
        /\ last' = ClientCall(op, c, WriteKey(op, c.subdomain, id), out)
        /\ UNCHANGED <<now, keyVars, oauthVars, extVars, cmdVars>>

CallUpdateTicket == CallUpdate("UpdateTicket")

CallUpdateUser == CallUpdate("UpdateUser")

CallSuspendUser == CallUpdate("SuspendUser")

CallUnsuspendUser == CallUpdate("UnsuspendUser")

CallDeleteUser ==
    \E c \in Clients, id \in Ids, resp \in Responses :
        LET out == DeleteUser(c, files, id, resp) IN
        /\ files' = out.files
        /\ last' = ClientCall("DeleteUser", c,
                              WriteKey("DeleteUser", c.subdomain, id), out)
        /\ UNCHANGED <<now, keyVars, oauthVars, extVars, cmdVars>>

ReadOps == {"GetTicket", "GetUser", "GetMe", "GetCurrentUser"}

WriteOps == {"UpdateTicket", "UpdateUser", "SuspendUser", "UnsuspendUser",
             "DeleteUser"}

(***************************************************************************)
(* Cache-key derivation as a step: two logical requests are drawn, their   *)
(* keys are computed.                                                      *)
(***************************************************************************)
Subdomains == {<<"a">>, <<"b">>, <<"a", ":", "tickets", ":", "search">>}

KeyIds == {1, 12}

Pages == {1, 2}

PerPages == {1, 12}

StatusFilters == {<<>>, <<"open">>}

Queries == {<<"q">>, <<"tickets", ":", "1">>}

PagedOps == {"ListUsers", "ListOrganizations", "ListGroups"}

IdOps == {"GetUser", "GetTicket", "GetTicketComments", "GetOrganization",
          "GetGroup"}

IdPagedOps == {"GetOrganizationUsers", "GetOrganizationTickets",
               "GetGroupUsers", "GetGroupMemberships"}

SearchOps == {"SearchUsers", "SearchTickets", "SearchOrganizations"}

\* every read method with the parameters it takes; a parameter a method
\* does not take is held at its zero value
Requests ==
    {Request(op, s, 0, 0, 0, <<>>, <<>>) :
        op \in {"GetMe", "GetCurrentUser"}, s \in Subdomains}
    \cup {Request(op, s, 0, pg, pp, <<>>, <<>>) :
        op \in PagedOps, s \in Subdomains, pg \in Pages, pp \in PerPages}
    \cup {Request("ListTickets", s, 0, pg, pp, st, <<>>) :
        s \in Subdomains, pg \in Pages, pp \in PerPages,
        st \in StatusFilters}
    \cup {Request(op, s, id, 0, 0, <<>>, <<>>) :
        op \in IdOps, s \in Subdomains, id \in KeyIds}
    \cup {Request(op, s, id, pg, pp, <<>>, <<>>) :
        op \in IdPagedOps, s \in Subdomains, id \in KeyIds, pg \in Pages,
        pp \in PerPages}
    \cup {Request(op, s, 0, 0, 0, <<>>, q) :
        op \in SearchOps, s \in Subdomains, q \in Queries}

NoRequest == Request(None, <<>>, 0, 0, 0, <<>>, <<>>)

DeriveKeys ==
    /\ keyA = Nil
    /\ keyA' = CacheKey(reqA)
    /\ keyB' = CacheKey(reqB)
    /\ UNCHANGED <<reqA, reqB, cacheVars, oauthVars, extVars, cmdVars>>

(***************************************************************************)
(* internal/auth: PerformOAuthFlow.  The flow function, the callback       *)
(* handlers of the listener and the environment (browser, caller, timer)   *)
(* take turns.                                                             *)
(***************************************************************************)
\* capacity of codeChan and of errChan
ChanCap == 1

\* the callbacks the listener may receive
MaxCallbacks == 3

Callbacks == [stateOK : BOOLEAN, error : BOOLEAN, code : BOOLEAN]

\* a handler that does not compare the state
Handler_NoStateCheck(cb) ==
    IF cb.error THEN [chan |-> "err", val |-> "authorization failed"]
    ELSE IF ~cb.code THEN [chan |-> "err", val |-> "no code"]
    ELSE [chan |-> "code", val |-> "code"]

\* the channel send a callback handler ends with
Handler(cb) ==
    IF ~cb.stateOK THEN [chan |-> "err", val |-> "state mismatch"]
    ELSE IF cb.error THEN [chan |-> "err", val |-> "authorization failed"]
    ELSE IF ~cb.code THEN [chan |-> "err", val |-> "no code"]
    ELSE [chan |-> "code", val |-> "code"]

\* the listener goroutine starts serving
ListenAndServe ==
    /\ mainPc = "start"
    /\ mainPc' = "serving"
    /\ listening' = TRUE
    /\ UNCHANGED <<codeChan, errChan, handlers, arrivals, resolved,
                   resolvedBy, received, shutdownCtx, exchanges, outcomes,
                   ctxDone, timerFired, mismatchSeen, codeSeen,
                   cacheVars, keyVars, extVars, cmdVars>>

\* the listener cannot bind the port: its goroutine reports on errChan
ListenFails ==
    /\ mainPc = "start"
    /\ mainPc' = "serving"
    /\ handlers' = handlers \cup
          {[id |-> 0, conn |-> FALSE, chan |-> "err",
            val |-> "failed to start"]}
    /\ UNCHANGED <<listening, codeChan, errChan, arrivals, resolved,
                   resolvedBy, received, shutdownCtx, exchanges, outcomes,
                   ctxDone, timerFired, mismatchSeen, codeSeen,
                   cacheVars, keyVars, extVars, cmdVars>>

\* the flow has printed the URL, tried the browser and reaches the select
EnterSelect ==
    /\ mainPc = "serving"
    /\ mainPc' = "select"
    /\ UNCHANGED <<listening, codeChan, errChan, handlers, arrivals,
                   resolved, resolvedBy, received, shutdownCtx, exchanges,
                   outcomes, ctxDone, timerFired, mismatchSeen, codeSeen,
                   cacheVars,
                   keyVars, extVars, cmdVars>>

\* a request reaches /callback; its handler runs up to its channel send
Callback ==
    \E cb \in Callbacks :
        /\ listening
        /\ arrivals < MaxCallbacks
        /\ arrivals' = arrivals + 1
        /\ handlers' = handlers \cup
              {[id |-> arrivals + 1, conn |-> TRUE,
                chan |-> Handler(cb).chan, val |-> Handler(cb).val]}
        /\ mismatchSeen' = (mismatchSeen \/ ~cb.stateOK)
        /\ codeSeen' = (codeSeen \/ (cb.stateOK /\ cb.code))
        /\ UNCHANGED <<mainPc, listening, codeChan, errChan, resolved,
                       resolvedBy, received, shutdownCtx, exchanges,
                       outcomes, ctxDone, timerFired,
                       cacheVars, keyVars, extVars, cmdVars>>

\* a pending send goes through when the channel has room; the handler ends
HandlerSend ==
    \E h \in handlers :
        /\ IF h.chan = "code"
           THEN /\ Len(codeChan) < ChanCap
                /\ codeChan' = Append(codeChan, h.val)
                /\ UNCHANGED errChan
           ELSE /\ Len(errChan) < ChanCap
                /\ errChan' = Append(errChan, h.val)
                /\ UNCHANGED codeChan
        /\ handlers' = handlers \ {h}
        /\ UNCHANGED <<mainPc, listening, arrivals, resolved, resolvedBy,
                       received, shutdownCtx, exchanges, outcomes, ctxDone,
                       timerFired, mismatchSeen, codeSeen,
                       cacheVars, keyVars, extVars, cmdVars>>

\* the caller cancels the context
CtxCancel ==
    /\ mainPc # "done"
    /\ ~ctxDone
    /\ ctxDone' = TRUE
    /\ UNCHANGED <<mainPc, listening, codeChan, errChan, handlers, arrivals,
                   resolved, resolvedBy, received, shutdownCtx, exchanges,
                   outcomes, timerFired, mismatchSeen, codeSeen,
                   cacheVars, keyVars, extVars, cmdVars>>

\* five minutes pass in the select
TimerFires ==
    /\ mainPc = "select"
    /\ ~timerFired
    /\ timerFired' = TRUE
    /\ UNCHANGED <<mainPc, listening, codeChan, errChan, handlers, arrivals,
                   resolved, resolvedBy, received, shutdownCtx, exchanges,
                   outcomes, ctxDone, mismatchSeen, codeSeen,
                   cacheVars, keyVars, extVars, cmdVars>>

\* a select that is entered again after a channel case
Select_Again(by) ==
    /\ mainPc = "select"
    /\ CASE by = "code" ->
              /\ codeChan # <<>>
              /\ received' = Head(codeChan)
              /\ codeChan' = Tail(codeChan)
              /\ UNCHANGED errChan
         [] by = "error" ->
              /\ errChan # <<>>
              /\ received' = Head(errChan)
              /\ errChan' = Tail(errChan)
              /\ UNCHANGED codeChan
         [] by = "cancelled" ->
              /\ ctxDone
              /\ received' = "context canceled"
              /\ UNCHANGED <<codeChan, errChan>>
         [] by = "timeout" ->
              /\ timerFired
              /\ received' = "authorization timeout"
              /\ UNCHANGED <<codeChan, errChan>>
    /\ resolved' = resolved + 1
    /\ resolvedBy' = by
    /\ mainPc' = IF by = "error" THEN "select" ELSE "resolved"
    /\ UNCHANGED <<listening, handlers, arrivals, shutdownCtx, exchanges,
                   outcomes, ctxDone, timerFired, mismatchSeen, codeSeen,
                   cacheVars,
                   keyVars, extVars, cmdVars>>

\* the select takes one ready case
Select(by) ==
    /\ mainPc = "select"
    /\ CASE by = "code" ->
              /\ codeChan # <<>>
              /\ received' = Head(codeChan)
              /\ codeChan' = Tail(codeChan)
              /\ UNCHANGED errChan
         [] by = "error" ->
              /\ errChan # <<>>
              /\ received' = Head(errChan)
              /\ errChan' = Tail(errChan)
              /\ UNCHANGED codeChan
         [] by = "cancelled" ->
              /\ ctxDone
              /\ received' = "context canceled"
              /\ UNCHANGED <<codeChan, errChan>>
         [] by = "timeout" ->
              /\ timerFired
              /\ received' = "authorization timeout"
              /\ UNCHANGED <<codeChan, errChan>>
    /\ resolved' = resolved + 1
    /\ resolvedBy' = by
    /\ mainPc' = "resolved"
    /\ UNCHANGED <<listening, handlers, arrivals, shutdownCtx, exchanges,
                   outcomes, ctxDone, timerFired, mismatchSeen, codeSeen,
                   cacheVars,
                   keyVars, extVars, cmdVars>>

SelectCode == Select("code")

SelectError == Select("error")

SelectCancelled == Select("cancelled")

SelectTimeout == Select("timeout")

\* the context each exit path hands to server.Shutdown
ShutdownContext(by) == IF by = "code" THEN "timeout" ELSE "background"

\* server.Shutdown is called: the listener is closed
BeginShutdown ==
    /\ mainPc = "resolved"
    /\ mainPc' = "shutdown"
    /\ listening' = FALSE
    /\ shutdownCtx' = ShutdownContext(resolvedBy)
    /\ UNCHANGED <<codeChan, errChan, handlers, arrivals, resolved,
                   resolvedBy, received, exchanges, outcomes, ctxDone,
                   timerFired, mismatchSeen, codeSeen,
                   cacheVars, keyVars, extVars, cmdVars>>

\* server.Shutdown returns: every connection is idle, or the context of
\* the call expired
ShutdownMayReturn ==
    \/ \A h \in handlers : ~h.conn
    \/ shutdownCtx = "timeout"

\* Shutdown returns on a failure path and the flow returns the error
ReturnError ==
    /\ mainPc = "shutdown"
    /\ resolvedBy # "code"
    /\ ShutdownMayReturn
    /\ mainPc' = "done"
    /\ outcomes' = Append(outcomes, [token |-> FALSE, err |-> received])
    /\ UNCHANGED <<listening, codeChan, errChan, handlers, arrivals,
                   resolved, resolvedBy, received, shutdownCtx, exchanges,
                   ctxDone, timerFired, mismatchSeen, codeSeen,
                   cacheVars, keyVars, extVars, cmdVars>>

\* Shutdown returns on the code path
EndShutdown ==
    /\ mainPc = "shutdown"
    /\ resolvedBy = "code"
    /\ ShutdownMayReturn
    /\ mainPc' = "exchange"
    /\ UNCHANGED <<listening, codeChan, errChan, handlers, arrivals,
                   resolved, resolvedBy, received, shutdownCtx, exchanges,
                   outcomes, ctxDone, timerFired, mismatchSeen, codeSeen,
                   cacheVars,
                   keyVars, extVars, cmdVars>>

\* oauthCfg.Exchange and the return of its result
Exchange ==
    \E ok \in BOOLEAN :
        /\ mainPc = "exchange"
        /\ exchanges' = exchanges + 1
        /\ mainPc' = "done"
        /\ outcomes' = Append(outcomes,
              IF ok THEN [token |-> TRUE, err |-> None]
              ELSE [token |-> FALSE, err |-> "exchange failed"])
        /\ UNCHANGED <<listening, codeChan, errChan, handlers, arrivals,
                       resolved, resolvedBy, received, shutdownCtx, ctxDone,
                       timerFired, mismatchSeen, codeSeen,
                       cacheVars, keyVars, extVars, cmdVars>>

(***************************************************************************)
(* internal/client: RetryWithBackoff.  One step runs the loop body from    *)
(* the call of fn to the select it blocks in or to the return; the timer   *)
(* and the caller's context are the environment.                           *)
(*                                                                         *)
(* time.Duration is a signed 64-bit count of nanoseconds and Atoi yields   *)
(* an int of the same width.  The model keeps the two's-complement         *)
(* arithmetic at the width DurationBits, with Second ticks to the second.  *)
(***************************************************************************)
\* RetryConfig.MaxRetries
MaxRetries == 3
\* RetryConfig.InitialBackoff, in seconds
InitialBackoff == 1
\* RetryConfig.MaxBackoff, in seconds
MaxBackoff == 30
\* the width of time.Duration and of int
DurationBits == 8
\* time.Second, in ticks
Second == 4

Min(a, b) == IF a < b THEN a ELSE b

RECURSIVE Pow2(_)
Pow2(n) == IF n = 0 THEN 1 ELSE 2 * Pow2(n - 1)

MaxInt == Pow2(DurationBits - 1) - 1

\* the value a signed integer of DurationBits bits holds for x
WrapDuration(x) ==
    ((x + Pow2(DurationBits - 1)) % Pow2(DurationBits))
    - Pow2(DurationBits - 1)

IsDigit(c) == \E d \in 0..9 : Digit(d) = c

DigitVal(c) == CHOOSE d \in 0..9 : Digit(d) = c

\* the value of a string of digits, saturating above the range of int
RECURSIVE ParseUint(_)
ParseUint(s) ==
    IF s = <<>> THEN 0
    ELSE Min(MaxInt + 2,
             10 * ParseUint(SubSeq(s, 1, Len(s) - 1)) + DigitVal(s[Len(s)]))

\* strconv.Atoi: an optional sign and decimal digits, within the range of int
Atoi(h) ==
    LET signed == h # <<>> /\ h[1] \in {"-", "+"}
        body   == IF signed THEN Tail(h) ELSE h
        u      == ParseUint(body)
    IN  IF body = <<>> \/ \E i \in DOMAIN body : ~IsDigit(body[i])
        THEN [ok |-> FALSE, n |-> 0]
        ELSE IF signed /\ h[1] = "-"
        THEN IF u > MaxInt + 1 THEN [ok |-> FALSE, n |-> 0]
             ELSE [ok |-> TRUE, n |-> 0 - u]
        ELSE IF u > MaxInt THEN [ok |-> FALSE, n |-> 0]
             ELSE [ok |-> TRUE, n |-> u]

Err(msg, code) == [msg |-> msg, code |-> code]

NoErr == Err(None, 0)

CtxErr == Err("context canceled", 0)

\* time.Duration(seconds) * time.Second, capped at MaxBackoff
RetryAfterWait(seconds) ==
    LET waitDuration == WrapDuration(seconds * Second) IN
    IF waitDuration > MaxBackoff * Second THEN MaxBackoff * Second
    ELSE waitDuration

\* a delay that does not grow with the attempts
Backoff_NoDoubling(attempt) == InitialBackoff * Second

\* InitialBackoff * 2^attempt, capped at MaxBackoff
Backoff(attempt) ==
    LET backoff == WrapDuration(InitialBackoff * Second * Pow2(attempt)) IN
    IF backoff > MaxBackoff * Second THEN MaxBackoff * Second ELSE backoff

NoOut == [returned |-> FALSE, resp |-> 0, err |-> NoErr, wraps |-> NoErr]

\* the return after the loop: a nil response and an error wrapping lastErr
Exhausted(lastErr) ==
    [returned |-> TRUE, resp |-> 0,
     err |-> Err("request failed after retries", MaxRetries),
     wraps |-> lastErr]

RetryStart ==
    [pc |-> "call", attempt |-> 0, calls |-> 0, lastErr |-> NoErr,
     callErr |-> NoErr, status |-> 0, header |-> <<>>, wait |-> 0,
     waitKind |-> None, timerReady |-> FALSE, ctxDone |-> FALSE,
     cancelledWaiting |-> FALSE, callsAfterCancel |-> 0, out |-> NoOut]

\* what fn returns: a transport error or a response with a status and a
\* Retry-After header
FnResult(err, status, header) ==
    [err |-> err, status |-> status, header |-> header]

RetryAfterHeaders ==
    { <<>>, <<"x">>, <<"0">>, <<"2">>, <<"3", "0">>, <<"3", "1">>,
      <<"-", "1">>, <<"4", "0">>, <<"9", "9", "9">> }

FnResults ==
    {FnResult(Err(m, 0), 0, <<>>) : m \in {"dial", "reset"}}
    \cup {FnResult(NoErr, s, <<>>) : s \in {200, 404, 500, 503}}
    \cup {FnResult(NoErr, 429, h) : h \in RetryAfterHeaders}

\* the loop body for one result of fn
AfterCall(r, res) ==
    LET failed  == res.err # NoErr \/ res.status >= 500 \/ res.status = 429
        lastErr == IF res.err # NoErr THEN res.err
                   ELSE Err("HTTP", res.status)
        seconds == Atoi(res.header)
        called  == [r EXCEPT !.calls = @ + 1,
                             !.callsAfterCancel =
                                 IF r.ctxDone THEN @ + 1 ELSE @,
                             !.status = res.status,
                             !.header = res.header,
                             !.callErr = IF failed THEN lastErr ELSE NoErr]
    IN  IF ~failed
        THEN [called EXCEPT !.pc = "done",
                            !.out = [returned |-> TRUE, resp |-> res.status,
                                     err |-> NoErr, wraps |-> NoErr]]
        ELSE IF /\ res.err = NoErr
                /\ res.status = 429
                /\ res.header # <<>>
                /\ seconds.ok
        THEN [called EXCEPT !.lastErr = lastErr,
                            !.pc = "wait",
                            !.waitKind = "retry-after",
                            !.wait = RetryAfterWait(seconds.n),
                            !.timerReady = (RetryAfterWait(seconds.n) <= 0)]
        ELSE IF r.attempt = MaxRetries
        THEN [called EXCEPT !.lastErr = lastErr,
                            !.pc = "done",
                            !.out = Exhausted(lastErr)]
        ELSE [called EXCEPT !.lastErr = lastErr,
                            !.pc = "wait",
                            !.waitKind = "backoff",
                            !.wait = Backoff(r.attempt),
                            !.timerReady = (Backoff(r.attempt) <= 0)]

\* fn is invoked and the loop body runs
RetryInvoke ==
    \E res \in FnResults :
        /\ retry.pc = "call"
        /\ retry' = AfterCall(retry, res)
        /\ UNCHANGED <<listCall, apiCall, built, run, cacheVars, keyVars,
                       oauthVars, cmdVars>>

\* the wait has elapsed: the channel of time.After is ready
RetryTimerFires ==
    /\ retry.pc = "wait"
    /\ ~retry.timerReady
    /\ retry' = [retry EXCEPT !.timerReady = TRUE]
    /\ UNCHANGED <<listCall, apiCall, built, run, cacheVars, keyVars,
                   oauthVars, cmdVars>>

\* the caller cancels the context
RetryCtxCancel ==
    /\ retry.pc # "done"
    /\ ~retry.ctxDone
    /\ retry' = [retry EXCEPT !.ctxDone = TRUE,
                              !.cancelledWaiting = (retry.pc = "wait")]
    /\ UNCHANGED <<listCall, apiCall, built, run, cacheVars, keyVars,
                   oauthVars, cmdVars>>

\* the select takes the timer case: continue with the next attempt, or
\* leave the loop when there is none
RetryContinue ==
    /\ retry.pc = "wait"
    /\ retry.timerReady
    /\ retry' = IF retry.attempt + 1 <= MaxRetries
                THEN [retry EXCEPT !.attempt = @ + 1, !.pc = "call"]
                ELSE [retry EXCEPT !.attempt = @ + 1, !.pc = "done",
                                   !.out = Exhausted(retry.lastErr)]
    /\ UNCHANGED <<listCall, apiCall, built, run, cacheVars, keyVars,
                   oauthVars, cmdVars>>

\* the select takes the case of ctx.Done: return ctx.Err()
RetryAbort ==
    /\ retry.pc = "wait"
    /\ retry.ctxDone
    /\ retry' = [retry EXCEPT !.pc = "done",
                              !.out = [returned |-> TRUE, resp |-> 0,
                                       err |-> CtxErr, wraps |-> NoErr]]
    /\ UNCHANGED <<listCall, apiCall, built, run, cacheVars, keyVars,
                   oauthVars, cmdVars>>

(***************************************************************************)
(* internal/client and internal/commands: the list methods and the list    *)
(* commands.                                                               *)
(***************************************************************************)
\* the largest per-page value the list commands pass on
MaxPerPage == 100

ListOps ==
    {"ListUsers", "ListTickets", "ListOrganizations", "GetOrganizationUsers",
     "GetOrganizationTickets", "ListGroups", "GetGroupUsers",
     "GetGroupMemberships"}

\* the resource part of the path each list method formats
ListResource(op) ==
    CASE op = "ListUsers" -> <<"/users.json">>
      [] op = "ListTickets" -> <<"/tickets.json">>
      [] op = "ListOrganizations" -> <<"/organizations.json">>
      [] op = "GetOrganizationUsers" ->
            <<"/organizations/", "%d", "/users.json">>
      [] op = "GetOrganizationTickets" ->
            <<"/organizations/", "%d", "/tickets.json">>
      [] op = "ListGroups" -> <<"/groups.json">>
      [] op = "GetGroupUsers" -> <<"/groups/", "%d", "/users.json">>
      [] op = "GetGroupMemberships" ->
            <<"/groups/", "%d", "/memberships.json">>

\* the request a list method sends on a cache miss:
\* fmt.Sprintf("...?page=%d&per_page=%d", page, perPage)
ListRequest(op, page, perPage) ==
    [path |-> ListResource(op), page |-> page, per_page |-> perPage]

\* the list commands cap the --per-page flag before they call the client
ClampPerPage(perPage) == IF perPage > MaxPerPage THEN MaxPerPage ELSE perPage

NoListCall ==
    [op |-> None, via |-> None, perPage |-> 0,
     sent |-> [path |-> <<>>, page |-> 0, per_page |-> 0]]

ListPages == {1, 2}

PerPageInputs == {1, 100, 101, 500}

\* a program calls a list method of the Client
CallList ==
    \E op \in ListOps, page \in ListPages, n \in PerPageInputs :
        /\ listCall' = [op |-> op, via |-> "client", perPage |-> n,
                        sent |-> ListRequest(op, page, n)]
        /\ UNCHANGED <<retry, apiCall, built, run, cacheVars, keyVars,
                       oauthVars, cmdVars>>

\* a list command runs with --page and --per-page
RunList ==
    \E op \in ListOps, page \in ListPages, n \in PerPageInputs :
        /\ listCall' = [op |-> op, via |-> "command", perPage |-> n,
                        sent |-> ListRequest(op, page, ClampPerPage(n))]
        /\ UNCHANGED <<retry, apiCall, built, run, cacheVars, keyVars,
                       oauthVars, cmdVars>>

(***************************************************************************)
(* internal/client: what each operation makes of the status of the         *)
(* response, and the structured API error.                                 *)
(***************************************************************************)
ReadOnlyOps ==
    {"GetMe", "GetCurrentUser", "GetUser", "ListUsers", "SearchUsers",
     "GetTicket", "GetTicketComments", "ListTickets", "SearchTickets",
     "GetOrganization", "ListOrganizations", "SearchOrganizations",
     "GetOrganizationUsers", "GetOrganizationTickets",
     "GetGroup", "ListGroups", "GetGroupUsers", "GetGroupMemberships"}

UserWriteOps == {"CreateUser", "UpdateUser", "SuspendUser", "UnsuspendUser"}

TicketWriteOps == {"CreateTicket", "UpdateTicket"}

AllOps ==
    ReadOnlyOps \cup UserWriteOps \cup TicketWriteOps
    \cup {"DeleteUser", "TestConnection"}

\* the operations whose error branch calls ParseAPIError; the others format
\* the status and the body into a plain error
ParsingOps ==
    {"GetMe", "ListUsers", "SearchUsers", "DeleteUser", "TestConnection"}
    \cup UserWriteOps

\* the statuses an operation takes for success
SuccessOf(op) ==
    IF op \in UserWriteOps \cup TicketWriteOps THEN 200..299
    ELSE IF op = "DeleteUser" THEN {200, 204}
    ELSE {200}

NoError == [kind |-> None, StatusCode |-> 0]

\* ParseAPIError: an *APIError that carries the status code
ParseAPIError(statusCode) == [kind |-> "APIError", StatusCode |-> statusCode]

\* fmt.Errorf: an error that is a string only
Errorf == [kind |-> "errorString", StatusCode |-> 0]

IsRateLimitError(err) == err.kind = "APIError" /\ err.StatusCode = 429

IsAuthError(err) ==
    err.kind = "APIError" /\ (err.StatusCode = 401 \/ err.StatusCode = 403)

IsNotFoundError(err) == err.kind = "APIError" /\ err.StatusCode = 404

\* the error an operation returns for a response with this status, and the
\* number of requests it has sent by then
Operation(op, status) ==
    [op |-> op, status |-> status, requests |-> 1,
     err |-> IF status \in SuccessOf(op) THEN NoError
             ELSE IF op \in ParsingOps THEN ParseAPIError(status)
             ELSE Errorf]

NoApiCall ==
    [op |-> None, status |-> 0, requests |-> 0, err |-> NoError]

Statuses == {200, 201, 204, 302, 400, 401, 403, 404, 422, 429, 500, 503}

\* an operation is called by a command and the server answers
CallOperation ==
    \E op \in AllOps, status \in Statuses :
        /\ apiCall' = Operation(op, status)
        /\ UNCHANGED <<listCall, retry, built, run, cacheVars, keyVars,
                       oauthVars, cmdVars>>

(***************************************************************************)
(* internal/client: construction of a client from an instance.             *)
(***************************************************************************)
AuthTypes == {"token", "oauth", "", "basic"}

\* every field is either empty or holds its own value
Instances ==
    {Instance(<<"a">>, t, e, a, c, s, o, r, x) :
        t \in AuthTypes, e \in {<<>>, <<"e">>}, a \in {<<>>, <<"t">>},
        c \in {<<>>, <<"c">>}, s \in {<<>>, <<"s">>}, o \in {<<>>, <<"o">>},
        r \in {<<>>, <<"r">>}, x \in {<<>>, <<"x">>}}

NoBuilt ==
    [instance |-> Instance(<<>>, "", <<>>, <<>>, <<>>, <<>>, <<>>, <<>>,
                           <<>>),
     useCache |-> FALSE, cacheInitOK |-> FALSE, returned |-> FALSE,
     out |-> [client |-> NoClient, err |-> None]]

\* the arguments of a call that has not returned yet
Constructions ==
    {[NoBuilt EXCEPT !.instance = instance, !.useCache = useCache,
                     !.cacheInitOK = cacheInitOK] :
        instance \in Instances, useCache \in BOOLEAN,
        cacheInitOK \in BOOLEAN}

\* NewClientWithCache runs on its arguments
Construct ==
    /\ built \in Constructions
    /\ built' = [built EXCEPT !.returned = TRUE,
                              !.out = NewClientWithCache(built.instance,
                                                         built.useCache,
                                                         built.cacheInitOK)]
    /\ UNCHANGED <<listCall, retry, apiCall, run, cacheVars, keyVars,
                   oauthVars, cmdVars>>

(***************************************************************************)
(* internal/config and internal/commands: the stored configuration, the    *)
(* instance commands and the choice of the instance a command runs         *)
(* against.                                                                *)
(***************************************************************************)
Names == {"prod", "dev", "test"}

\* the instance stored under a name: its subdomain is the name
StoredInstance(name) ==
    [TokenInstance(<<name>>) EXCEPT !.Email = <<"e-", name>>]

NewConfig == [Current |-> "", Instances |-> {}]

\* Config.GetCurrentInstance
GetCurrentInstance(cfg) ==
    IF cfg.Current = "" THEN [name |-> "", err |-> "no current instance"]
    ELSE IF cfg.Current \notin cfg.Instances
    THEN [name |-> "", err |-> "instance not found"]
    ELSE [name |-> cfg.Current, err |-> None]

\* Config.AddInstanceWithSwitch
AddInstanceWithSwitch(cfg, name, makeCurrent) ==
    IF name = "" THEN [cfg |-> cfg, err |-> "invalid instance name"]
    ELSE IF name \in cfg.Instances
    THEN [cfg |-> cfg, err |-> "instance exists"]
    ELSE [cfg |-> [Current |-> IF cfg.Current = "" \/ makeCurrent
                               THEN name ELSE cfg.Current,
                   Instances |-> cfg.Instances \cup {name}],
          err |-> None]

\* a switch that sets Current before it looks the name up
SwitchInstance_SetFirst(cfg, name) ==
    [cfg |-> [cfg EXCEPT !.Current = name],
     err |-> IF name \notin cfg.Instances THEN "instance not found"
             ELSE None]

\* Config.SwitchInstance
SwitchInstance(cfg, name) ==
    IF name \notin cfg.Instances
    THEN [cfg |-> cfg, err |-> "instance not found"]
    ELSE [cfg |-> [cfg EXCEPT !.Current = name], err |-> None]

\* a removal that leaves Current as it is
RemoveInstance_KeepCurrent(cfg, name, next) ==
    IF name \notin cfg.Instances
    THEN [cfg |-> cfg, err |-> "instance not found"]
    ELSE [cfg |-> [cfg EXCEPT !.Instances = @ \ {name}], err |-> None]

\* Config.RemoveInstance; when the current instance is removed the next
\* one is the first the map iteration yields: any of the remaining ones
RemoveInstance(cfg, name, next) ==
    IF name \notin cfg.Instances
    THEN [cfg |-> cfg, err |-> "instance not found"]
    ELSE [cfg |-> [Current |-> IF cfg.Current # name THEN cfg.Current
                               ELSE IF cfg.Instances \ {name} # {}
                               THEN next ELSE "",
                   Instances |-> cfg.Instances \ {name}],
          err |-> None]

\* getClientFromFlags that does not look at --refresh
getClientFromFlags_IgnoreRefresh(cfg, flagInstance, refresh, cacheInitOK) ==
    LET cur == GetCurrentInstance(cfg) IN
    IF cur.err # None THEN [client |-> NoClient, err |-> cur.err]
    ELSE NewClientWithCache(StoredInstance(cur.name), TRUE, cacheInitOK)

\* getClientFromFlags: the client a resource command works with.  The
\* global flag --instance is registered on the root command; flagInstance
\* is its value
getClientFromFlags(cfg, flagInstance, refresh, cacheInitOK) ==
    LET cur == GetCurrentInstance(cfg) IN
    IF cur.err # None THEN [client |-> NoClient, err |-> cur.err]
    ELSE NewClientWithCache(StoredInstance(cur.name), ~refresh, cacheInitOK)

NoRun ==
    [cfg |-> NewConfig, cmd |-> None, flag |-> "", before |-> "",
     client |-> NoClient, err |-> None]

\* zd instance add: the new instance becomes the current one
RunInstanceAdd ==
    \E name \in Names :
        LET r == AddInstanceWithSwitch(run.cfg, name, TRUE) IN
        /\ run' = [NoRun EXCEPT !.cfg = r.cfg, !.cmd = "instance add",
                                !.before = run.cfg.Current, !.err = r.err]
        /\ UNCHANGED <<listCall, retry, apiCall, built, cacheVars, keyVars,
                       oauthVars, cmdVars>>

\* zd init without a stored instance: a new configuration with one instance
RunInit ==
    \E name \in Names :
        LET r == AddInstanceWithSwitch(NewConfig, name, FALSE) IN
        /\ run.cfg.Instances = {}
        /\ run' = [NoRun EXCEPT !.cfg = r.cfg, !.cmd = "init",
                                !.before = run.cfg.Current, !.err = r.err]
        /\ UNCHANGED <<listCall, retry, apiCall, built, cacheVars, keyVars,
                       oauthVars, cmdVars>>

\* zd instance switch
RunInstanceSwitch ==
    \E name \in Names :
        LET r == SwitchInstance(run.cfg, name) IN
        /\ run' = [NoRun EXCEPT !.cfg = r.cfg, !.cmd = "instance switch",
                                !.before = run.cfg.Current, !.err = r.err]
        /\ UNCHANGED <<listCall, retry, apiCall, built, cacheVars, keyVars,
                       oauthVars, cmdVars>>

\* zd instance remove
RunInstanceRemove ==
    \E name \in Names, next \in Names :
        LET r == RemoveInstance(run.cfg, name, next) IN
        /\ \/ next \in run.cfg.Instances \ {name}
           \/ run.cfg.Instances \ {name} = {}
        /\ run' = [NoRun EXCEPT !.cfg = r.cfg, !.cmd = "instance remove",
                                !.before = run.cfg.Current, !.err = r.err]
        /\ UNCHANGED <<listCall, retry, apiCall, built, cacheVars, keyVars,
                       oauthVars, cmdVars>>

\* a resource command (user, ticket, organization, group) runs, with or
\* without --instance and --refresh
RunResourceCommand ==
    \E flag \in Names \cup {""}, refresh \in BOOLEAN, cacheInitOK \in BOOLEAN :
        LET r == getClientFromFlags(run.cfg, flag, refresh, cacheInitOK) IN
        /\ run' = [cfg |-> run.cfg, cmd |-> "resource", flag |-> flag,
                   before |-> run.cfg.Current, client |-> r.client,
                   err |-> r.err]
        /\ UNCHANGED <<listCall, retry, apiCall, built, cacheVars, keyVars,
                       oauthVars, cmdVars>>

(***************************************************************************)
(* internal/commands: zd user delete.  The text typed at the prompt is a   *)
(* sequence of characters.                                                 *)
(***************************************************************************)
RECURSIVE TrimLeft(_)
TrimLeft(s) == IF s # <<>> /\ Head(s) = " " THEN TrimLeft(Tail(s)) ELSE s

RECURSIVE TrimRight(_)
TrimRight(s) ==
    IF s # <<>> /\ s[Len(s)] = " "
    THEN TrimRight(SubSeq(s, 1, Len(s) - 1)) ELSE s

\* strings.TrimSpace
TrimSpace(s) == TrimRight(TrimLeft(s))

\* strings.ToLower over the letters that occur
ToLower(s) ==
    [i \in DOMAIN s |->
        CASE s[i] = "Y" -> "y"
          [] s[i] = "E" -> "e"
          [] s[i] = "S" -> "s"
          [] s[i] = "N" -> "n"
          [] s[i] = "O" -> "o"
          [] OTHER -> s[i]]

\* the Validate function of a required prompt: the prompt accepts only a
\* line that is not blank
PromptValidate(input) == TrimSpace(input) # <<>>

\* promptString(label, true): interrupted when prompt.Run returns an error
promptString(input, interrupted) ==
    IF interrupted THEN [value |-> <<>>, err |-> TRUE]
    ELSE [value |-> TrimSpace(input), err |-> FALSE]

\* the lines a user may submit at the prompt
Typed ==
    { <<"y", "e", "s">>, <<"Y", "E", "S">>, <<"Y", "e", "s">>,
      <<" ", "y", "e", "s", " ">>, <<"y">>, <<"n", "o">>,
      <<"y", "e", "s", " ", "n", "o">>, <<"y", "e", " ", "s">>,
      <<" ">>, <<>> }

PromptInputs == {input \in Typed : PromptValidate(input)}

\* what getClientFromFlags returns to the command
ClientResults ==
    {NewClientWithCache(TokenInstance(Sub), u, ok) :
        u \in BOOLEAN, ok \in BOOLEAN}
    \cup {[client |-> NoClient, err |-> "no configuration found"]}

\* the argument of the command
IdArgs == {<<"1">>, <<"x">>}

NoCommandOut(fs) == [err |-> FALSE, http |-> 0, prompted |-> FALSE, files |-> fs]

\* a delete command that asks nothing
runUserDelete_NoPrompt(cl, arg, force, input, interrupted, fs, resp) ==
    LET id == Atoi(arg) IN
    IF cl.err # None THEN [NoCommandOut(fs) EXCEPT !.err = TRUE]
    ELSE IF ~id.ok THEN [NoCommandOut(fs) EXCEPT !.err = TRUE]
    ELSE LET d == DeleteUser(cl.client, fs, id.n, resp) IN
         [err |-> d.err, http |-> d.http, prompted |-> FALSE,
          files |-> d.files]

\* runUserDelete; strconv.ParseInt is Atoi over the range of the identifiers
runUserDelete(cl, arg, force, input, interrupted, fs, resp) ==
    LET id      == Atoi(arg)
        confirm == promptString(input, interrupted)
    IN  IF cl.err # None THEN [NoCommandOut(fs) EXCEPT !.err = TRUE]
        ELSE IF ~id.ok THEN [NoCommandOut(fs) EXCEPT !.err = TRUE]
        ELSE IF ~force /\ confirm.err
        THEN [NoCommandOut(fs) EXCEPT !.err = TRUE, !.prompted = TRUE]
        ELSE IF ~force /\ ToLower(confirm.value) # <<"y", "e", "s">>
        THEN [NoCommandOut(fs) EXCEPT !.prompted = TRUE]
        ELSE LET d == DeleteUser(cl.client, fs, id.n, resp) IN
             [err |-> d.err, http |-> d.http, prompted |-> ~force,
              files |-> d.files]

NoUserDelete ==
    [ran |-> FALSE, arg |-> <<>>, force |-> FALSE, input |-> <<>>,
     interrupted |-> FALSE,
     prompted |-> FALSE, http |-> 0, err |-> FALSE, before |-> <<>>,
     after |-> <<>>]

RunUserDelete ==
    \E cl \in ClientResults, arg \in IdArgs, force \in BOOLEAN,
       input \in PromptInputs, interrupted \in BOOLEAN,
       resp \in Responses :
        LET out == runUserDelete(cl, arg, force, input, interrupted, files,
                                 resp)
        IN
        /\ files' = out.files
        /\ userDelete' =
               [ran |-> TRUE, arg |-> arg, force |-> force,
                input |-> IF out.prompted THEN input ELSE <<>>,
                interrupted |-> out.prompted /\ interrupted,
                prompted |-> out.prompted, http |-> out.http,
                err |-> out.err, before |-> files, after |-> out.files]
        /\ last' = [NoLast EXCEPT !.op = "user delete"]
        /\ UNCHANGED <<now, keyVars, oauthVars, extVars, ticketWrite,
                       roundTrip, wire, conc, shared, frame, fill, runVars>>

(***************************************************************************)
(* internal/commands and internal/client: the ticket write commands and    *)
(* the request bodies they send.  An Int64 flag is whether it was given    *)
(* and its value (0 when not given); a *int64 field is nil or a value.     *)
(***************************************************************************)
Flag(set, value) == [set |-> set, value |-> value]

NilPtr == [nil |-> TRUE, v |-> 0]

Ptr(v) == [nil |-> FALSE, v |-> v]

\* a member of the JSON object sent: present with a value, or left out
Omitted == [present |-> FALSE, v |-> 0]

Member(v) == [present |-> TRUE, v |-> v]

\* json.Marshal of a *int64 field tagged omitempty: nil is left out, every
\* value a non-nil pointer points to is written
MarshalPtr(p) == IF p.nil THEN Omitted ELSE Member(p.v)

TicketRequest(statusSet, assigneeID, groupID) ==
    [status |-> statusSet, AssigneeID |-> assigneeID, GroupID |-> groupID]

\* the ticket object of the body: the optional members the claims are about
TicketBody(status, assignee, group) ==
    [status |-> status, assignee_id |-> assignee, group_id |-> group]

\* Client.CreateTicket: the map built from the request
CreateTicket(req) ==
    TicketBody(req.status,
               IF ~req.AssigneeID.nil THEN Member(req.AssigneeID.v)
               ELSE Omitted,
               IF ~req.GroupID.nil THEN Member(req.GroupID.v) ELSE Omitted)

\* Client.UpdateTicket: json.Marshal of the UpdateTicketRequest
UpdateTicket(req) ==
    TicketBody(req.status, MarshalPtr(req.AssigneeID),
               MarshalPtr(req.GroupID))

NoTicketBody == TicketBody(FALSE, Omitted, Omitted)

\* runTicketCreate: GetInt64 gives the flag's value, 0 when it was not given
runTicketCreate(status, assignee, group) ==
    [sent |-> TRUE,
     body |-> CreateTicket(
                TicketRequest(status.set,
                    IF assignee.value > 0 THEN Ptr(assignee.value)
                    ELSE NilPtr,
                    IF group.value > 0 THEN Ptr(group.value) ELSE NilPtr))]

\* runTicketUpdate: a flag that was given is copied into the request
runTicketUpdate(status, assignee, group) ==
    IF ~(status.set \/ assignee.set \/ group.set)
    THEN [sent |-> FALSE, body |-> NoTicketBody]
    ELSE [sent |-> TRUE,
          body |-> UpdateTicket(
                     TicketRequest(status.set,
                         IF assignee.set THEN Ptr(assignee.value) ELSE NilPtr,
                         IF group.set THEN Ptr(group.value) ELSE NilPtr))]

\* runTicketAssign: the second argument, parsed, is the assignee
runTicketAssign(arg) ==
    LET id == Atoi(arg) IN
    IF ~id.ok THEN [sent |-> FALSE, body |-> NoTicketBody]
    ELSE [sent |-> TRUE,
          body |-> UpdateTicket(TicketRequest(FALSE, Ptr(id.n), NilPtr))]

\* the values of --assignee and --group
IdFlags == {Flag(FALSE, 0)} \cup {Flag(TRUE, v) : v \in {0, 1, 7, 12, 0 - 1}}

\* whether --status was given
TextFlags == {Flag(s, 0) : s \in BOOLEAN}

AssignArgs == {<<"0">>, <<"1">>, <<"7">>, <<"x">>}

NoTicketWrite ==
    [cmd |-> None, status |-> Flag(FALSE, 0), assignee |-> Flag(FALSE, 0),
     group |-> Flag(FALSE, 0), sent |-> FALSE, body |-> NoTicketBody]

RunTicketCreate ==
    \E status \in TextFlags, assignee \in IdFlags, group \in IdFlags :
        LET out == runTicketCreate(status, assignee, group) IN
        /\ ticketWrite' = [cmd |-> "create", status |-> status,
                           assignee |-> assignee, group |-> group,
                           sent |-> out.sent, body |-> out.body]
        /\ UNCHANGED <<userDelete, roundTrip, wire, conc, shared, frame,
                       cacheVars, keyVars, oauthVars, extVars, fill, runVars>>

RunTicketUpdate ==
    \E status \in TextFlags, assignee \in IdFlags, group \in IdFlags :
        LET out == runTicketUpdate(status, assignee, group) IN
        /\ ticketWrite' = [cmd |-> "update", status |-> status,
                           assignee |-> assignee, group |-> group,
                           sent |-> out.sent, body |-> out.body]
        /\ UNCHANGED <<userDelete, roundTrip, wire, conc, shared, frame,
                       cacheVars, keyVars, oauthVars, extVars, fill, runVars>>

RunTicketAssign ==
    \E arg \in AssignArgs :
        LET out == runTicketAssign(arg) IN
        /\ ticketWrite' = [cmd |-> "assign", status |-> Flag(FALSE, 0),
                           assignee |-> Flag(Atoi(arg).ok, Atoi(arg).n),
                           group |-> Flag(FALSE, 0),
                           sent |-> out.sent, body |-> out.body]
        /\ UNCHANGED <<userDelete, roundTrip, wire, conc, shared, frame,
                       cacheVars, keyVars, oauthVars, extVars, fill, runVars>>

(***************************************************************************)
(* A read that fetches followed by a read of the same request.             *)
(***************************************************************************)
\* one request of every read method
RoundTripRequests ==
    {Request(op, Sub, 0, 0, 0, <<>>, <<>>) : op \in {"GetMe", "GetCurrentUser"}}
    \cup {Request(op, Sub, 0, 1, 1, <<>>, <<>>) : op \in PagedOps}
    \cup {Request("ListTickets", Sub, 0, 1, 1, <<"open">>, <<>>)}
    \cup {Request(op, Sub, 1, 0, 0, <<>>, <<>>) : op \in IdOps}
    \cup {Request(op, Sub, 1, 1, 1, <<>>, <<>>) : op \in IdPagedOps}
    \cup {Request(op, Sub, 0, 0, 0, <<>>, <<"q">>) : op \in SearchOps}

\* 200 responses that carry a list envelope, besides the other responses
EnvelopeResponses ==
    {Response(TRUE, 200, <<"{", tok, "}">>) : tok \in {"e1", "e<", "eX"}}
    \cup {Response(TRUE, 200, <<"{", " ", "e<", " ", "}">>)}

NoCallOut == [result |-> NoResult, err |-> FALSE, http |-> 0]

NoRoundTrip ==
    [pc |-> "idle", req |-> NoRequest, client |-> NoClient,
     first |-> NoCallOut, second |-> NoCallOut]

CallOut(out) == [result |-> out.result, err |-> out.err, http |-> out.http]

\* a read method is called
FirstRead ==
    \E c \in Clients, r \in RoundTripRequests,
       resp \in Responses \cup EnvelopeResponses, writeOK \in BOOLEAN :
        LET out == ReadThrough(c, files, now, r, resp, writeOK) IN
        /\ roundTrip.pc = "idle"
        /\ files' = out.files
        /\ roundTrip' = [pc |-> "fetched", req |-> r, client |-> c,
                         first |-> CallOut(out), second |-> NoCallOut]
        /\ UNCHANGED <<now, last, keyVars, oauthVars, extVars, userDelete,
                       ticketWrite, wire, conc, shared, frame, fill, runVars>>

\* the same client calls the method again with the same arguments
SecondRead ==
    \E resp \in Responses \cup EnvelopeResponses, writeOK \in BOOLEAN :
        LET out == ReadThrough(roundTrip.client, files, now, roundTrip.req,
                               resp, writeOK)
        IN
        /\ roundTrip.pc = "fetched"
        /\ files' = out.files
        /\ roundTrip' = [roundTrip EXCEPT !.pc = "read",
                                          !.second = CallOut(out)]
        /\ UNCHANGED <<now, last, keyVars, oauthVars, extVars, userDelete,
                       ticketWrite, wire, conc, shared, frame, fill, runVars>>

(***************************************************************************)
(* internal/client: the requests a client puts on the wire.  The path of a *)
(* request is named after the operation that sends it.                     *)
(***************************************************************************)
\* the requests of one client that the model follows
MaxRequests == 2

HttpRequest(method, path, authorization) ==
    [method |-> method, path |-> path, Authorization |-> authorization]

\* a request builder that sets no Authorization header
makeRequest_NoHeader(c, method, path) == HttpRequest(method, path, <<>>)

\* Client.makeRequest
makeRequest(c, method, path) == HttpRequest(method, path, c.authHeader)

\* the request makeUserRequest and makeTicketRequest build
makeBodyRequest(c, method, path) == HttpRequest(method, path, c.authHeader)

MethodOf(op) ==
    CASE op \in {"CreateUser", "CreateTicket"} -> "POST"
      [] op \in {"UpdateUser", "SuspendUser", "UnsuspendUser",
                 "UpdateTicket"} -> "PUT"
      [] op = "DeleteUser" -> "DELETE"
      [] OTHER -> "GET"

\* the request an operation sends
RequestOf(c, op) ==
    CASE op \in UserWriteOps \cup TicketWriteOps ->
            makeBodyRequest(c, MethodOf(op), op)
      [] op = "DeleteUser" -> HttpRequest("DELETE", op, c.authHeader)
      [] OTHER -> makeRequest(c, MethodOf(op), op)

\* a stored OAuth instance; email and apiToken may be left over from an
\* earlier token configuration
OAuthInstance(sub, email, apiToken, token) ==
    Instance(sub, "oauth", email, apiToken, <<"id">>, <<"secret">>, token,
             <<"r">>, <<"2030">>)

WireInstances ==
    {TokenInstance(Sub),
     Instance(Sub, "token", <<"a@b.com">>, <<"tok123">>, <<>>, <<>>,
              <<"o">>, <<>>, <<>>),
     OAuthInstance(Sub, <<>>, <<>>, <<"o">>),
     OAuthInstance(Sub, <<"e">>, <<"t">>, <<"p">>)}

NoWire ==
    [built |-> FALSE, instance |-> TokenInstance(Sub), client |-> NoClient,
     requests |-> <<>>]

\* a command constructs its client
BuildClient ==
    \E instance \in WireInstances, useCache \in BOOLEAN,
       cacheInitOK \in BOOLEAN :
        LET r == NewClientWithCache(instance, useCache, cacheInitOK) IN
        /\ ~wire.built
        /\ r.err = None
        /\ wire' = [built |-> TRUE, instance |-> instance,
                    client |-> r.client, requests |-> <<>>]
        /\ UNCHANGED <<userDelete, ticketWrite, roundTrip, conc, shared, frame,
                       cacheVars, keyVars, oauthVars, extVars, fill, runVars>>

\* the client sends the request of one of its operations
SendRequest ==
    \E op \in AllOps :
        /\ wire.built
        /\ Len(wire.requests) < MaxRequests
        /\ wire' = [wire EXCEPT
                       !.requests = Append(@, RequestOf(wire.client, op))]
        /\ UNCHANGED <<userDelete, ticketWrite, roundTrip, conc, shared, frame,
                       cacheVars, keyVars, oauthVars, extVars, fill, runVars>>

(***************************************************************************)
(* internal/cache under concurrent calls on one key.  Here the file of the *)
(* key is the bytes on disk: an envelope is a run of chunks, each chunk    *)
(* marked with the call that wrote it.  os.WriteFile opens the file with   *)
(* O_CREATE and O_TRUNC and then writes at offset 0; os.ReadFile reads     *)
(* what the file holds at that moment; os.Remove unlinks whatever file the *)
(* path names.  Every system call is one step.                             *)
(***************************************************************************)
\* the two calls of Cache.Set
Setters == {1, 2}

\* the call of Cache.Get
Getter == 3

\* the entry an earlier invocation stored is marked 0
Earlier == 0

\* the length of the envelope a call marshals: the payloads differ in length
EnvLen(w) == w + 1

Envelope(w) == [i \in 1..EnvLen(w) |-> <<w, i>>]

\* json.Unmarshal of the file into an Entry succeeds on a complete envelope
\* and on nothing else
Whole(content) == \E w \in Setters \cup {Earlier} : content = Envelope(w)

WriterOf(content) ==
    CHOOSE w \in Setters \cup {Earlier} : content = Envelope(w)

\* a write of buf at offset 0 into a file that holds old
WriteAt0(old, buf) ==
    [i \in 1..(IF Len(old) > Len(buf) THEN Len(old) ELSE Len(buf)) |->
        IF i <= Len(buf) THEN buf[i] ELSE old[i]]

Inodes == 1..3

NoProc == [pc |-> "idle", fd |-> 0, found |-> FALSE, w |-> 0]

\* path: the inode the file name of the key points to, 0 when there is no
\* such file; expired: whether the earlier entry is past its expiry
Disk(path, inodes, used, expired) ==
    [path |-> path, inodes |-> inodes, used |-> used, expired |-> expired,
     procs |-> [p \in Setters \cup {Getter} |-> NoProc]]

NoInodes == [n \in Inodes |-> <<>>]

\* no file, or the entry of an earlier invocation, fresh or expired
InitialDisks ==
    {Disk(0, NoInodes, 0, FALSE)}
    \cup {Disk(1, [NoInodes EXCEPT ![1] = Envelope(Earlier)], 1, e) :
            e \in BOOLEAN}

\* what Cache.Get returns when it runs alone on the file
GetAlone(d) ==
    IF d.path = 0 THEN [found |-> FALSE, w |-> 0]
    ELSE IF ~Whole(d.inodes[d.path]) THEN [found |-> FALSE, w |-> 0]
    ELSE IF WriterOf(d.inodes[d.path]) = Earlier /\ d.expired
    THEN [found |-> FALSE, w |-> 0]
    ELSE [found |-> TRUE, w |-> WriterOf(d.inodes[d.path])]

\* Set, os.WriteFile: open with O_CREATE|O_TRUNC
SetOpens(p) ==
    /\ conc.procs[p].pc = "idle"
    /\ conc' =
         IF conc.path # 0
         THEN [conc EXCEPT !.inodes[conc.path] = <<>>,
                           !.procs[p] = [@ EXCEPT !.pc = "opened",
                                                  !.fd = conc.path]]
         ELSE [conc EXCEPT !.path = conc.used + 1,
                           !.used = conc.used + 1,
                           !.inodes[conc.used + 1] = <<>>,
                           !.procs[p] = [@ EXCEPT !.pc = "opened",
                                                  !.fd = conc.used + 1]]
    /\ UNCHANGED <<userDelete, ticketWrite, roundTrip, wire, shared, frame,
                   cacheVars, keyVars, oauthVars, extVars, fill, runVars>>

\* Set, os.WriteFile: write and close
SetWrites(p) ==
    /\ conc.procs[p].pc = "opened"
    /\ conc' = [conc EXCEPT
                  !.inodes[conc.procs[p].fd] = WriteAt0(@, Envelope(p)),
                  !.procs[p] = [@ EXCEPT !.pc = "done"]]
    /\ UNCHANGED <<userDelete, ticketWrite, roundTrip, wire, shared, frame,
                   cacheVars, keyVars, oauthVars, extVars, fill, runVars>>

\* Get: os.ReadFile, json.Unmarshal and the expiry test
GetReads ==
    LET g == GetAlone(conc) IN
    /\ conc.procs[Getter].pc = "idle"
    /\ conc' = [conc EXCEPT !.procs[Getter] =
                  IF conc.path = 0 THEN [@ EXCEPT !.pc = "done"]
                  ELSE IF ~g.found THEN [@ EXCEPT !.pc = "remove"]
                  ELSE [@ EXCEPT !.pc = "done", !.found = TRUE, !.w = g.w]]
    /\ UNCHANGED <<userDelete, ticketWrite, roundTrip, wire, shared, frame,
                   cacheVars, keyVars, oauthVars, extVars, fill, runVars>>

\* Get: os.Remove(path) of the entry found unusable
GetRemoves ==
    /\ conc.procs[Getter].pc = "remove"
    /\ conc' = [conc EXCEPT !.path = 0,
                            !.procs[Getter] = [@ EXCEPT !.pc = "done"]]
    /\ UNCHANGED <<userDelete, ticketWrite, roundTrip, wire, shared, frame,
                   cacheVars, keyVars, oauthVars, extVars, fill, runVars>>

(***************************************************************************)
(* Clients of several configured instances over the one cache directory.   *)
(* For every entry the model remembers the instance whose client stored    *)
(* it.                                                                     *)
(***************************************************************************)
\* the configured instances: two accounts of one subdomain, and an account
\* of another subdomain
Configured ==
    [admin |-> Instance(<<"a">>, "token", <<"admin">>, <<"t">>, <<>>, <<>>,
                        <<>>, <<>>, <<>>),
     agent |-> Instance(<<"a">>, "token", <<"agent">>, <<"u">>, <<>>, <<>>,
                        <<>>, <<>>, <<>>),
     other |-> Instance(<<"b">>, "token", <<"admin">>, <<"t">>, <<>>, <<>>,
                        <<>>, <<>>, <<>>)]

\* the answers of the server to the reads of the instances
InstanceResponses ==
    {Response(TRUE, 404, <<"x">>),
     Response(TRUE, 200, <<"{", "r:", "{", "v1", "}", "}">>),
     Response(TRUE, 200, <<"{", "r:", "{", "v2", "}", "}">>)}

\* the request of  zd user me  for the subdomain
InstanceRequests(sub) == {Request("GetMe", sub, 0, 0, 0, <<>>, <<>>)}

NoShared ==
    [owner |-> <<>>, by |-> None, op |-> None, hit |-> FALSE,
     servedFrom |-> None]

\* a command of one instance reads through the cache
InstanceRead ==
    \E name \in DOMAIN Configured, resp \in InstanceResponses,
       writeOK \in BOOLEAN :
        LET c == NewClientWithCache(Configured[name], TRUE, TRUE).client IN
        \E r \in InstanceRequests(c.subdomain) :
            LET out    == ReadThrough(c, files, now, r, resp, writeOK)
                path   == keyToPath(CacheKey(r))
                stored == out.http = 1 /\ ~out.err /\ writeOK
            IN
            /\ files' = out.files
            /\ shared' =
                 [owner |-> [p \in DOMAIN out.files |->
                               IF p = path /\ stored THEN name
                               ELSE shared.owner[p]],
                  by |-> name, op |-> r.op, hit |-> out.http = 0,
                  servedFrom |-> IF out.http = 0 THEN shared.owner[path]
                                 ELSE None]
            /\ last' = [NoLast EXCEPT !.op = r.op]
            /\ UNCHANGED <<now, keyVars, oauthVars, extVars, userDelete,
                           ticketWrite, roundTrip, wire, conc, frame, fill,
                           runVars>>

(***************************************************************************)
(* The write methods over a cache that earlier reads have filled.          *)
(***************************************************************************)
\* CreateUser and CreateTicket: the request, and nothing else
CreateResource(c, fs, resp) ==
    LET r == makeResourceRequest(resp) IN
    [result |-> r.result, err |-> r.err, http |-> 1, files |-> fs]

CreateOps == {"CreateUser", "CreateTicket"}

\* a write method by its name
WriteThrough(c, fs, op, id, resp) ==
    IF op \in CreateOps THEN CreateResource(c, fs, resp)
    ELSE IF op = "DeleteUser" THEN DeleteUser(c, fs, id, resp)
    ELSE UpdateResource(c, fs, op, id, resp)

FrameIds == {1, 2}

\* the requests whose entries the cache may hold: single resources, lists,
\* searches, comments, a sub-list and the current user
FrameRequests ==
    {Request("GetTicket", Sub, id, 0, 0, <<>>, <<>>) : id \in FrameIds}
    \cup {Request("GetUser", Sub, id, 0, 0, <<>>, <<>>) : id \in FrameIds}
    \cup {Request("GetMe", Sub, 0, 0, 0, <<>>, <<>>),
          Request("ListUsers", Sub, 0, 1, 1, <<>>, <<>>),
          Request("SearchTickets", Sub, 0, 0, 0, <<>>, <<"q">>),
          Request("GetTicketComments", Sub, 1, 0, 0, <<>>, <<>>),
          Request("GetOrganizationTickets", Sub, 1, 1, 1, <<>>, <<>>)}

\* the cache after reads of the requests rs have stored their responses
Stored(rs) ==
    [p \in {keyToPath(CacheKey(r)) : r \in rs} |->
        Entry(<<"{", "r:", "{", "v1", "}", "}">>, 0, TTL)]

NoFrame ==
    [ran |-> FALSE, op |-> None, id |-> 0, cacheOn |-> FALSE, err |-> FALSE,
     before |-> <<>>, after |-> <<>>]

\* a write method is called
CallWrite ==
    \E c \in Clients, op \in WriteOps \cup CreateOps, id \in FrameIds,
       resp \in Responses :
        LET out == WriteThrough(c, files, op, id, resp) IN
        /\ ~frame.ran
        /\ files' = out.files
        /\ frame' = [ran |-> TRUE, op |-> op, id |-> id, cacheOn |-> c.cache,
                     err |-> out.err, before |-> files, after |-> out.files]
        /\ last' = [NoLast EXCEPT !.op = op]
        /\ UNCHANGED <<now, keyVars, oauthVars, extVars, userDelete,
                       ticketWrite, roundTrip, wire, conc, shared, fill,
                       runVars>>

(***************************************************************************)
(* The read methods, with the response each call received and the entries  *)
(* its call left different.                                                *)
(***************************************************************************)
FillRequests ==
    {Request("GetTicket", Sub, 1, 0, 0, <<>>, <<>>),
     Request("ListUsers", Sub, 0, 1, 1, <<>>, <<>>)}

\* a transport error, an error status with a JSON body, and 200 with a
\* resource, a resource with white space, a list envelope and bytes that
\* are not JSON
FillResponses ==
    {Response(FALSE, 0, <<>>),
     Response(TRUE, 404, <<"{", "r:", "{", "v1", "}", "}">>),
     Response(TRUE, 200, <<"{", "r:", "{", "v1", "}", "}">>),
     Response(TRUE, 200, <<"{", " ", "r:", "{", "v2", "}", "}">>),
     Response(TRUE, 200, <<"{", "e1", "}">>),
     Response(TRUE, 200, <<"x">>)}

NoFill ==
    [op |-> None, key |-> Nil, http |-> 0, err |-> FALSE,
     resp |-> Response(FALSE, 0, <<>>), changed |-> {}]

\* the files that exist after a call and are not what they were before it
Changed(before, after) ==
    {p \in DOMAIN after : p \notin DOMAIN before \/ after[p] # before[p]}

\* a read method is called and returns
CallRead ==
    \E c \in Clients, r \in FillRequests, resp \in FillResponses,
       writeOK \in BOOLEAN :
        LET out == ReadThrough(c, files, now, r, resp, writeOK) IN
        /\ files' = out.files
        /\ fill' = [op |-> r.op, key |-> CacheKey(r), http |-> out.http,
                    err |-> out.err,
                    resp |-> IF out.http = 1 THEN resp
                             ELSE Response(FALSE, 0, <<>>),
                    changed |-> Changed(files, out.files)]
        /\ last' = [NoLast EXCEPT !.op = r.op]
        /\ UNCHANGED <<now, keyVars, oauthVars, extVars, userDelete,
                       ticketWrite, roundTrip, wire, conc, shared, frame,
                       runVars>>

(***************************************************************************)
(* internal/commands: a read command run with or without --refresh.  Each  *)
(* run builds its client with getClientFromFlags and calls one read        *)
(* method.  The record keeps the keys whose entry on disk is older than    *)
(* the last live answer a --refresh run returned for that key.             *)
(***************************************************************************)
\* the configuration the read commands run against: one stored instance
StoredConfig == AddInstanceWithSwitch(NewConfig, "prod", FALSE).cfg

RefreshRequests ==
    {Request("GetTicket", <<"prod">>, 1, 0, 0, <<>>, <<>>),
     Request("GetUser", <<"prod">>, 1, 0, 0, <<>>, <<>>)}

\* a transport error, and 200 with an older and a newer state of the
\* resource
RefreshResponses ==
    {Response(FALSE, 0, <<>>),
     Response(TRUE, 200, <<"{", "r:", "{", "v1", "}", "}">>),
     Response(TRUE, 200, <<"{", "r:", "{", "v2", "}", "}">>)}

NoRefresh ==
    [op |-> None, key |-> Nil, refresh |-> FALSE, http |-> 0, err |-> FALSE,
     result |-> NoResult, resp |-> Response(FALSE, 0, <<>>),
     before |-> <<>>, hit |-> FALSE, stale |-> {}, servedStale |-> FALSE]

\* a read command runs to its end
ReadCommand ==
    \E flag \in BOOLEAN, r \in RefreshRequests, resp \in RefreshResponses,
       writeOK \in BOOLEAN :
        LET c    == getClientFromFlags(StoredConfig, "", flag, TRUE).client
            out  == ReadThrough(c, files, now, r, resp, writeOK)
            key  == CacheKey(r)
            path == keyToPath(key)
            hit  == out.http = 0 /\ ~out.err
            kept == /\ path \in DOMAIN files
                    /\ path \in DOMAIN out.files
                    /\ out.files[path] = files[path]
        IN
        /\ files' = out.files
        /\ readRun' =
              [op |-> r.op, key |-> key, refresh |-> flag,
               http |-> out.http, err |-> out.err, result |-> out.result,
               resp |-> resp, before |-> files, hit |-> hit,
               stale |-> IF flag /\ out.http = 1 /\ ~out.err /\ kept
                         THEN readRun.stale \cup {key}
                         ELSE IF kept THEN readRun.stale
                         ELSE readRun.stale \ {key},
               servedStale |-> hit /\ key \in readRun.stale]
        /\ last' = [NoLast EXCEPT !.op = r.op]
        /\ UNCHANGED <<now, keyVars, oauthVars, extVars, userDelete,
                       ticketWrite, roundTrip, wire, conc, shared, frame,
                       fill, cli, flows, parsed, config>>

(***************************************************************************)
(* internal/commands and internal/auth: PerformOAuthFlow as setupOAuth     *)
(* and runReauth call it, with the clock.  No callback arrives and nobody   *)
(* but the caller's own deadline cancels.  The clock counts pauses of the  *)
(* length the flow sleeps after it starts the listener; the five minutes   *)
(* of the caller's context and of time.After are the same number of them,  *)
(* scaled down to WaitCeiling.                                             *)
(***************************************************************************)
\* time.Sleep(200 * time.Millisecond)
StartupSleep == 1
\* 5 * time.Minute, of the caller's context and of time.After alike
WaitCeiling == 5
\* how long the clock runs on after the later of the two deadlines
ClockSlack == 2

OAuthCallers == {"setupOAuth", "runReauth"}

NoCli ==
    [caller |-> None, pc |-> "idle", clock |-> 0, ctxDeadline |-> 0,
     wakeAt |-> 0, timerDeadline |-> 0, listening |-> FALSE,
     outcome |-> None]

\* time passes
ClockTick ==
    /\ cli.pc \notin {"idle", "done"}
    /\ cli.clock < WaitCeiling + StartupSleep + ClockSlack
    /\ cli' = [cli EXCEPT !.clock = @ + 1]
    /\ UNCHANGED <<cacheVars, keyVars, oauthVars, extVars, userDelete,
                   ticketWrite, roundTrip, wire, conc, shared, frame, fill,
                   readRun, flows, parsed, config>>

\* setupOAuth or runReauth: context.WithTimeout(Background, 5 minutes),
\* then PerformOAuthFlow(ctx, cfg)
CallPerformOAuthFlow ==
    \E caller \in OAuthCallers :
        /\ cli.pc = "idle"
        /\ cli' = [cli EXCEPT !.caller = caller, !.pc = "start",
                              !.ctxDeadline = cli.clock + WaitCeiling]
        /\ UNCHANGED <<cacheVars, keyVars, oauthVars, extVars, userDelete,
                       ticketWrite, roundTrip, wire, conc, shared, frame,
                       fill, readRun, flows, parsed, config>>

\* the listener goroutine is started, it binds the port or fails to, and
\* the flow sleeps
FlowListen ==
    \E ok \in BOOLEAN :
        /\ cli.pc = "start"
        /\ cli' = [cli EXCEPT !.pc = "sleep", !.listening = ok,
                              !.wakeAt = cli.clock + StartupSleep]
        /\ UNCHANGED <<cacheVars, keyVars, oauthVars, extVars, userDelete,
                       ticketWrite, roundTrip, wire, conc, shared, frame,
                       fill, readRun, flows, parsed, config>>

\* the sleep is over; the URL is printed, the browser is tried and the
\* select is entered: time.After starts its timer
FlowEnterSelect ==
    /\ cli.pc = "sleep"
    /\ cli.clock >= cli.wakeAt
    /\ cli' = [cli EXCEPT !.pc = "select",
                          !.timerDeadline = cli.clock + WaitCeiling]
    /\ UNCHANGED <<cacheVars, keyVars, oauthVars, extVars, userDelete,
                   ticketWrite, roundTrip, wire, conc, shared, frame, fill,
                   readRun, flows, parsed, config>>

\* the cases of the select that are ready, in the order of the source;
\* there is no callback, so codeChan is never ready
FlowReady(c) ==
    {by \in {"error", "cancelled", "timeout"} :
        CASE by = "error" -> ~c.listening
          [] by = "cancelled" -> c.clock >= c.ctxDeadline
          [] by = "timeout" -> c.clock >= c.timerDeadline}

\* what the flow returns for the case taken
FlowOutcome(c, by) ==
    CASE by = "error" -> "failed to start callback server"
      [] by = "cancelled" -> "context deadline exceeded"
      [] by = "timeout" -> "authorization timeout"

\* the select takes one of the ready cases and the flow returns
FlowSelect ==
    \E by \in FlowReady(cli) :
        /\ cli.pc = "select"
        /\ cli' = [cli EXCEPT !.pc = "done",
                              !.outcome = FlowOutcome(cli, by)]
        /\ UNCHANGED <<cacheVars, keyVars, oauthVars, extVars, userDelete,
                       ticketWrite, roundTrip, wire, conc, shared, frame,
                       fill, readRun, flows, parsed, config>>

(***************************************************************************)
(* internal/auth: the state token of PerformOAuthFlow.  Flows are started  *)
(* by separate runs of the program, at any time of the shared clock, and   *)
(* a callback that carries the state of one flow may reach another.        *)
(***************************************************************************)
\* the resolution of the clock: ticks to the second
TicksPerSecond == 2
\* the flows started
MaxFlows == 2
\* the ticks the clock runs
MaxFlowClock == 4

\* time.Now().Unix()
Unix(t) == t \div TicksPerSecond

\* fmt.Sprintf("state-%d", time.Now().Unix())
StateToken(t) == <<"state-">> \o Itoa(Unix(t))

\* the handler's first check: r.URL.Query().Get("state") != state
StateAccepted(carried, state) == carried = state

NoFlows == [clock |-> 0, started |-> <<>>, delivered |-> {}]

\* time passes
FlowsTick ==
    /\ flows.clock < MaxFlowClock
    /\ flows' = [flows EXCEPT !.clock = @ + 1]
    /\ UNCHANGED <<cacheVars, keyVars, oauthVars, extVars, userDelete,
                   ticketWrite, roundTrip, wire, conc, shared, frame, fill,
                   readRun, cli, parsed, config>>

\* a run of the program enters PerformOAuthFlow and generates its state
StartFlow ==
    /\ Len(flows.started) < MaxFlows
    /\ flows' = [flows EXCEPT !.started =
                    Append(@, [at |-> flows.clock,
                               state |-> StateToken(flows.clock)])]
    /\ UNCHANGED <<cacheVars, keyVars, oauthVars, extVars, userDelete,
                   ticketWrite, roundTrip, wire, conc, shared, frame, fill,
                   readRun, cli, parsed, config>>

\* a callback that carries the state issued to one flow reaches the
\* handler of another
CrossCallback ==
    \E i \in DOMAIN flows.started, j \in DOMAIN flows.started :
        /\ i # j
        /\ flows' = [flows EXCEPT !.delivered = @ \cup
                        {[from |-> i, to |-> j,
                          accepted |->
                              StateAccepted(flows.started[i].state,
                                            flows.started[j].state)]}]
        /\ UNCHANGED <<cacheVars, keyVars, oauthVars, extVars, userDelete,
                       ticketWrite, roundTrip, wire, conc, shared, frame,
                       fill, readRun, cli, parsed, config>>

(***************************************************************************)
(* internal/client: ParseAPIError with the body.  A body is a sequence of  *)
(* tokens; an object is "{", pairs of a key and a value, "}".  Messages    *)
(* are sequences of pieces of text.                                        *)
(***************************************************************************)
ErrorKeys == {"error:", "description:", "details:", "title:"}

\* JSON strings, the empty one among them
StringValues == {"\"RecordNotFound\"", "\"Not found\"", "\"\""}

\* values that are not strings: a number and an object
OtherValues == {"1", "{}"}

\* the text of a JSON string, over the strings that occur
Unquote(tok) ==
    CASE tok = "\"RecordNotFound\"" -> <<"RecordNotFound">>
      [] tok = "\"Not found\"" -> <<"Not found">>
      [] OTHER -> <<>>

\* the body is one JSON object whose members have the values that occur
IsObject(b) ==
    /\ Len(b) >= 2
    /\ b[1] = "{"
    /\ b[Len(b)] = "}"
    /\ (Len(b) - 2) % 2 = 0
    /\ \A i \in 2..(Len(b) - 1) :
          IF i % 2 = 0 THEN b[i] \in ErrorKeys
          ELSE b[i] \in StringValues \cup OtherValues \cup {"null"}

\* the positions of the values of the member key
ValuesOf(b, key) == {i \in 3..(Len(b) - 1) : i % 2 = 1 /\ b[i - 1] = key}

\* the string a field of type string holds after decoding: the last
\* string member of that name, a null leaving the field as it is
FieldOf(b, key) ==
    LET at == {i \in ValuesOf(b, key) : b[i] \in StringValues} IN
    IF at = {} THEN <<>>
    ELSE Unquote(b[CHOOSE i \in at : \A k \in at : k <= i])

\* json.Unmarshal(body, &zdError): an error for a body that is not an
\* object and for a string field that is given a number or an object
UnmarshalZendeskError(b) ==
    IF ~IsObject(b)
    THEN [ok |-> FALSE, Error |-> <<>>, Description |-> <<>>]
    ELSE [ok |-> \A key \in {"error:", "description:"} :
                    \A i \in ValuesOf(b, key) : b[i] \notin OtherValues,
          Error |-> FieldOf(b, "error:"),
          Description |-> FieldOf(b, "description:")]

getStatusMessage(statusCode) ==
    CASE statusCode = 400 -> <<"Bad Request">>
      [] statusCode = 401 -> <<"Authentication Failed">>
      [] statusCode = 403 -> <<"Access Denied">>
      [] statusCode = 404 -> <<"Resource Not Found">>
      [] statusCode = 422 -> <<"Invalid Input">>
      [] statusCode = 429 -> <<"Rate Limit Exceeded">>
      [] statusCode = 500 -> <<"Zendesk Server Error">>
      [] statusCode = 503 -> <<"Zendesk Service Unavailable">>
      [] OTHER -> <<"HTTP ">> \o Itoa(statusCode) \o <<" Error">>

\* ParseAPIError(statusCode, body)
ParseAPIErrorBody(statusCode, body) ==
    LET zdError == UnmarshalZendeskError(body) IN
    IF zdError.ok /\ zdError.Error # <<>>
    THEN [StatusCode |-> statusCode, Message |-> zdError.Error,
          Description |-> zdError.Description]
    ELSE [StatusCode |-> statusCode, Message |-> getStatusMessage(statusCode),
          Description |-> body]

ErrorStatuses == {400, 401, 403, 404, 409, 422, 429, 500, 502, 503, 504}

\* an error document, one without a description, one with an empty error,
\* one whose error is null, is an object or is given twice, a document
\* with other members only, an empty object, an HTML page and no body
ErrorBodies ==
    { <<"{", "error:", "\"RecordNotFound\"", "description:",
        "\"Not found\"", "}">>,
      <<"{", "error:", "\"RecordNotFound\"", "}">>,
      <<"{", "error:", "\"\"", "description:", "\"Not found\"", "}">>,
      <<"{", "error:", "null", "description:", "\"Not found\"", "}">>,
      <<"{", "error:", "{}", "description:", "\"Not found\"", "}">>,
      <<"{", "error:", "\"RecordNotFound\"", "description:", "1", "}">>,
      <<"{", "error:", "\"\"", "error:", "\"RecordNotFound\"", "}">>,
      <<"{", "title:", "\"Not found\"", "details:", "{}", "}">>,
      <<"{", "}">>,
      <<"<html>">>,
      <<>> }

NoParsed ==
    [called |-> FALSE, statusCode |-> 0, body |-> <<>>,
     err |-> [StatusCode |-> 0, Message |-> <<>>, Description |-> <<>>]]

\* ParseAPIError is called with the status and the body of a response
CallParseAPIError ==
    \E statusCode \in ErrorStatuses, body \in ErrorBodies :
        /\ parsed' = [called |-> TRUE, statusCode |-> statusCode,
                      body |-> body,
                      err |-> ParseAPIErrorBody(statusCode, body)]
        /\ UNCHANGED <<cacheVars, keyVars, oauthVars, extVars, userDelete,
                       ticketWrite, roundTrip, wire, conc, shared, frame,
                       fill, readRun, cli, flows, config>>

(***************************************************************************)
(* internal/config: the methods of Config called directly, with any name,  *)
(* the empty one included, on a Config that NewConfig created.             *)
(***************************************************************************)
NoConfigCall ==
    [cfg |-> NewConfig, op |-> None, name |-> "", err |-> None,
     before |-> NewConfig]

\* the record of a method call and of the Config it left
ConfigCall(op, name, r) ==
    [cfg |-> r.cfg, op |-> op, name |-> name, err |-> r.err,
     before |-> config.cfg]

\* Config.AddInstance
CallAddInstance ==
    \E name \in Names \cup {""} :
        /\ config' = ConfigCall("AddInstance", name,
                        AddInstanceWithSwitch(config.cfg, name, FALSE))
        /\ UNCHANGED <<cacheVars, keyVars, oauthVars, extVars, userDelete,
                       ticketWrite, roundTrip, wire, conc, shared, frame,
                       fill, readRun, cli, flows, parsed>>

\* Config.AddInstanceAndSwitch
CallAddInstanceAndSwitch ==
    \E name \in Names \cup {""} :
        /\ config' = ConfigCall("AddInstanceAndSwitch", name,
                        AddInstanceWithSwitch(config.cfg, name, TRUE))
        /\ UNCHANGED <<cacheVars, keyVars, oauthVars, extVars, userDelete,
                       ticketWrite, roundTrip, wire, conc, shared, frame,
                       fill, readRun, cli, flows, parsed>>

\* Config.RemoveInstance; next is the name the map iteration yields first
CallRemoveInstance ==
    \E name \in Names \cup {""}, next \in Names :
        /\ \/ next \in config.cfg.Instances \ {name}
           \/ config.cfg.Instances \ {name} = {}
        /\ config' = ConfigCall("RemoveInstance", name,
                        RemoveInstance(config.cfg, name, next))
        /\ UNCHANGED <<cacheVars, keyVars, oauthVars, extVars, userDelete,
                       ticketWrite, roundTrip, wire, conc, shared, frame,
                       fill, readRun, cli, flows, parsed>>

\* Config.SwitchInstance
CallSwitchInstance ==
    \E name \in Names \cup {""} :
        /\ config' = ConfigCall("SwitchInstance", name,
                        SwitchInstance(config.cfg, name))
        /\ UNCHANGED <<cacheVars, keyVars, oauthVars, extVars, userDelete,
                       ticketWrite, roundTrip, wire, conc, shared, frame,
                       fill, readRun, cli, flows, parsed>>

(***************************************************************************)
(* Specifications.                                                         *)
(***************************************************************************)
CacheIdle == files = <<>> /\ now = 0 /\ last = NoLast

KeysIdle ==
    reqA = NoRequest /\ reqB = NoRequest /\ keyA = Nil /\ keyB = Nil

OAuthStart ==
    /\ mainPc = "start"
    /\ listening = FALSE
    /\ codeChan = <<>>
    /\ errChan = <<>>
    /\ handlers = {}
    /\ arrivals = 0
    /\ resolved = 0
    /\ resolvedBy = None
    /\ received = None
    /\ shutdownCtx = None
    /\ exchanges = 0
    /\ outcomes = <<>>
    /\ ctxDone = FALSE
    /\ timerFired = FALSE
    /\ mismatchSeen = FALSE
    /\ codeSeen = FALSE

RunIdle ==
    /\ readRun = NoRefresh
    /\ cli = NoCli
    /\ flows = NoFlows
    /\ parsed = NoParsed
    /\ config = NoConfigCall

CmdIdle ==
    /\ userDelete = NoUserDelete
    /\ ticketWrite = NoTicketWrite
    /\ roundTrip = NoRoundTrip
    /\ wire = NoWire
    /\ conc = Disk(0, NoInodes, 0, FALSE)
    /\ shared = NoShared
    /\ frame = NoFrame
    /\ fill = NoFill
    /\ RunIdle

ExtIdle ==
    /\ listCall = NoListCall
    /\ retry = RetryStart
    /\ apiCall = NoApiCall
    /\ built = NoBuilt
    /\ run = NoRun
    /\ CmdIdle

\* the API client over the cache: single-resource reads and the writes
Init == CacheIdle /\ KeysIdle /\ OAuthStart /\ ExtIdle

Next ==
    \/ CallGetTicket
    \/ CallGetUser
    \/ CallUpdateTicket
    \/ CallUpdateUser
    \/ CallSuspendUser
    \/ CallUnsuspendUser
    \/ CallDeleteUser
    \/ CorruptFile(ClientKeys)
    \/ Tick

Spec == Init /\ [][Next]_vars

\* the API client over the cache: the read methods, two of which share
\* one key
NextReads ==
    \/ CallGetTicket
    \/ CallGetMe
    \/ CallGetCurrentUser
    \/ CorruptFile(ReadKeys)
    \/ Tick

SpecReads == Init /\ [][NextReads]_vars

\* package cache used directly
NextCache ==
    \/ CallSet
    \/ CallGet
    \/ CallDelete
    \/ CallClear
    \/ CallPruneExpired
    \/ CorruptFile(CacheKeys)
    \/ Tick

SpecCache == Init /\ [][NextCache]_vars

\* cache-key derivation
InitKeys ==
    /\ CacheIdle
    /\ OAuthStart
    /\ ExtIdle
    /\ reqA \in Requests
    /\ reqB \in Requests
    /\ keyA = Nil
    /\ keyB = Nil

NextKeys == DeriveKeys

SpecKeys == InitKeys /\ [][NextKeys]_vars

\* the OAuth flow
NextOAuth ==
    \/ ListenAndServe
    \/ ListenFails
    \/ EnterSelect
    \/ Callback
    \/ HandlerSend
    \/ CtxCancel
    \/ TimerFires
    \/ SelectCode
    \/ SelectError
    \/ SelectCancelled
    \/ SelectTimeout
    \/ BeginShutdown
    \/ ReturnError
    \/ EndShutdown
    \/ Exchange

SpecOAuth == Init /\ [][NextOAuth]_vars

\* the list methods, called directly and through the list commands
NextList == CallList \/ RunList

SpecList == Init /\ [][NextList]_vars

\* one call of RetryWithBackoff and its environment
NextRetry ==
    \/ RetryInvoke
    \/ RetryTimerFires
    \/ RetryCtxCancel
    \/ RetryContinue
    \/ RetryAbort

SpecRetry == Init /\ [][NextRetry]_vars

\* the operations of the client against every response status
NextErrors == CallOperation

SpecErrors == Init /\ [][NextErrors]_vars

\* construction of clients
NextConstruct == Construct

InitConstruct ==
    /\ CacheIdle
    /\ KeysIdle
    /\ OAuthStart
    /\ listCall = NoListCall
    /\ retry = RetryStart
    /\ apiCall = NoApiCall
    /\ run = NoRun
    /\ CmdIdle
    /\ built \in Constructions

SpecConstruct == InitConstruct /\ [][NextConstruct]_vars

\* the commands over the stored configuration
NextCommands ==
    \/ RunInit
    \/ RunInstanceAdd
    \/ RunInstanceSwitch
    \/ RunInstanceRemove
    \/ RunResourceCommand

SpecCommands == Init /\ [][NextCommands]_vars

\* the user delete command over a cache that earlier reads have filled
StoredUsers ==
    {<<>>,
     Set(<<>>, 0, CacheKey(Request("GetUser", Sub, 1, 0, 0, <<>>, <<>>)),
         <<"{", "r:", "{", "v1", "}", "}">>, TRUE).files,
     Set(Set(<<>>, 0, CacheKey(Request("GetUser", Sub, 1, 0, 0, <<>>, <<>>)),
             <<"{", "r:", "{", "v1", "}", "}">>, TRUE).files,
         0, CacheKey(Request("GetMe", Sub, 0, 0, 0, <<>>, <<>>)),
         <<"{", "r:", "{", "v2", "}", "}">>, TRUE).files}

InitUserDelete ==
    /\ files \in StoredUsers
    /\ now = 0
    /\ last = NoLast
    /\ KeysIdle
    /\ OAuthStart
    /\ ExtIdle

NextUserDelete == RunUserDelete

SpecUserDelete == InitUserDelete /\ [][NextUserDelete]_vars

\* the ticket write commands
NextTicketWrite ==
    \/ RunTicketCreate
    \/ RunTicketUpdate
    \/ RunTicketAssign

SpecTicketWrite == Init /\ [][NextTicketWrite]_vars

\* a read followed by the same read
NextRoundTrip ==
    \/ FirstRead
    \/ SecondRead
    \/ Tick

SpecRoundTrip == Init /\ [][NextRoundTrip]_vars

\* the requests of a client
NextWire == BuildClient \/ SendRequest

SpecWire == Init /\ [][NextWire]_vars

\* concurrent calls of the cache on one key
InitConcurrent ==
    /\ CacheIdle
    /\ KeysIdle
    /\ OAuthStart
    /\ listCall = NoListCall
    /\ retry = RetryStart
    /\ apiCall = NoApiCall
    /\ built = NoBuilt
    /\ run = NoRun
    /\ userDelete = NoUserDelete
    /\ ticketWrite = NoTicketWrite
    /\ roundTrip = NoRoundTrip
    /\ wire = NoWire
    /\ shared = NoShared
    /\ frame = NoFrame
    /\ fill = NoFill
    /\ RunIdle
    /\ conc \in InitialDisks

NextConcurrent ==
    \/ \E p \in Setters : SetOpens(p)
    \/ \E p \in Setters : SetWrites(p)
    \/ GetReads
    \/ GetRemoves

SpecConcurrent == InitConcurrent /\ [][NextConcurrent]_vars

\* the clients of the configured instances
NextInstances == InstanceRead \/ Tick

SpecInstances == Init /\ [][NextInstances]_vars

\* one write over every cache the reads can have left, with the entries
\* fresh or expired
InitFrame ==
    /\ files \in {Stored(rs) : rs \in SUBSET FrameRequests}
    /\ now \in {0, MaxTime}
    /\ last = NoLast
    /\ KeysIdle
    /\ OAuthStart
    /\ ExtIdle

NextFrame == CallWrite

SpecFrame == InitFrame /\ [][NextFrame]_vars

\* the read methods and the entries they store
NextFill == CallRead \/ Tick

SpecFill == Init /\ [][NextFill]_vars

\* read commands with and without --refresh
NextRefresh == ReadCommand \/ Tick

SpecRefresh == Init /\ [][NextRefresh]_vars

\* the OAuth flow of the command line, without callbacks
NextCli ==
    \/ CallPerformOAuthFlow
    \/ FlowListen
    \/ FlowEnterSelect
    \/ FlowSelect
    \/ ClockTick

SpecCli == Init /\ [][NextCli]_vars

\* the state tokens of the flows
NextFlows == StartFlow \/ CrossCallback \/ FlowsTick

SpecFlows == Init /\ [][NextFlows]_vars

\* ParseAPIError over statuses and bodies
NextParse == CallParseAPIError

SpecParse == Init /\ [][NextParse]_vars

\* the methods of Config
NextConfig ==
    \/ CallAddInstance
    \/ CallAddInstanceAndSwitch
    \/ CallRemoveInstance
    \/ CallSwitchInstance

SpecConfig == Init /\ [][NextConfig]_vars

(***************************************************************************)
(* Properties.                                                             *)
(***************************************************************************)
\* the read method that shares the single-resource key of a write method
ReadOf(op, c, fs, t, id, resp, writeOK) ==
    IF op = "UpdateTicket" THEN GetTicket(c, fs, t, id, resp, writeOK)
    ELSE GetUser(c, fs, t, id, resp, writeOK)

\* C1: after a successful UpdateTicket, UpdateUser, SuspendUser,
\* UnsuspendUser or DeleteUser, by a client constructed with caching on or
\* off, no entry remains under the resource's single-resource key and the
\* next read of it by a cache-enabled client goes to the network.
C1_WriteInvalidates ==
    (last.op \in WriteOps /\ ~last.err) =>
        /\ keyToPath(last.key) \notin DOMAIN files
        /\ \A c \in Clients, id \in Ids, resp \in Responses :
              (c.cache /\ WriteKey(last.op, c.subdomain, id) = last.key)
              => ReadOf(last.op, c, files, now, id, resp, TRUE).http = 1

\* C2: a read by a cache-enabled client that finds a fresh entry whose data
\* decodes into its result type returns the value decoded from the entry
\* without any HTTP request; every other read issues exactly one request.
C2_HitMeansNoRequest ==
    (last.op \in ReadOps /\ last.cacheOn) =>
        IF last.preFresh /\ last.preValue.ok
        THEN last.http = 0 /\ ~last.err /\ last.result = last.preValue
        ELSE last.http = 1

C2_Witness ==
    /\ last.op = "GetMe"
    /\ last.cacheOn
    /\ last.preFresh
    /\ last.preValue.ok
    /\ last.result.v = 2
    /\ last.http = 0

\* C3: once the listener has received a callback whose state differs from
\* the issued one, no token exchange is attempted and the flow ends in
\* failure, whatever other callbacks arrive.
C3_MismatchNeverExchanges ==
    mismatchSeen =>
        /\ exchanges = 0
        /\ mainPc = "done" => \A i \in DOMAIN outcomes : ~outcomes[i].token

\* a handler whose send can no longer go through: its channel is full and
\* the select has been left
BlockedForever(h) ==
    /\ h.conn
    /\ IF h.chan = "code" THEN Len(codeChan) >= ChanCap
       ELSE Len(errChan) >= ChanCap

\* C4: on every exit path Shutdown has a bounded grace period, so the flow
\* is never held in Shutdown by handlers that are blocked.
C4_ShutdownBounded ==
    mainPc = "shutdown" =>
        \/ shutdownCtx = "timeout"
        \/ \A h \in handlers : ~BlockedForever(h)

C6_SetThenGet ==
    (last.op = "Set" /\ ~last.err) =>
        /\ Get(files, now, last.key).found
        /\ Get(files, now, last.key).data = last.arg

\* C7: Get serves a stored parseable entry if and only if now is strictly
\* before its expires_at.
C7_StrictlyBefore ==
    (last.op = "Get" /\ last.pre.present /\ last.pre.content.ok) =>
        (last.found <=> now < last.pre.content.expires_at)

Logical(r) == [r EXCEPT !.op = IF @ = "GetCurrentUser" THEN "GetMe" ELSE @]

\* C10: two read requests have the same cache key if and only if they are
\* the same logical request.
C10_KeysInjective ==
    keyA # Nil => ((keyA = keyB) <=> (Logical(reqA) = Logical(reqB)))

\* C11: the per_page parameter of the request a list method sends is the
\* smaller of the caller's per-page value and 100, whether the method is
\* called directly or through a list command.
C11_PerPageCapped ==
    listCall.op # None =>
        listCall.sent.per_page = Min(listCall.perPage, MaxPerPage)

\* C12: fn is invoked at most MaxRetries + 1 times, and when all of these
\* invocations have been made before any cancellation and have failed,
\* RetryWithBackoff returns a nil response and an error that wraps the
\* error of the last invocation.
C12_StopsWithLastError ==
    /\ retry.calls <= MaxRetries + 1
    /\ ( /\ retry.pc = "done"
         /\ retry.calls = MaxRetries + 1
         /\ retry.callsAfterCancel = 0
         /\ retry.callErr # NoErr ) =>
            /\ retry.out.resp = 0
            /\ retry.out.wraps = retry.callErr

\* C13: after a 429 the wait is min(s, MaxBackoff) seconds when the
\* Retry-After header is the integer s, and the exponential delay of the
\* attempt when the header is absent or unusable.
C13_RetryAfterWait ==
    ( /\ retry.pc = "wait"
      /\ retry.callErr = Err("HTTP", 429) ) =>
        IF Atoi(retry.header).ok
        THEN /\ retry.waitKind = "retry-after"
             /\ retry.wait = Min(Atoi(retry.header).n, MaxBackoff) * Second
        ELSE /\ retry.waitKind = "backoff"
             /\ retry.wait = Backoff(retry.attempt)

\* C14: once the context is cancelled during a wait, fn is not invoked
\* again and RetryWithBackoff returns the error of the context.
C14_CancelAbortsWait ==
    retry.cancelledWaiting =>
        /\ retry.callsAfterCancel = 0
        /\ retry.pc = "done" => retry.out.err = CtxErr

\* C15: for every operation and every status outside 200..299 the returned
\* error classifies as rate limit iff the status is 429, as auth error iff
\* it is 401 or 403, and as not-found iff it is 404.
C15_ErrorsClassified ==
    (apiCall.op # None /\ apiCall.status \notin 200..299) =>
        /\ apiCall.err # NoError
        /\ IsRateLimitError(apiCall.err) <=> apiCall.status = 429
        /\ IsAuthError(apiCall.err) <=> apiCall.status \in {401, 403}
        /\ IsNotFoundError(apiCall.err) <=> apiCall.status = 404

\* the fields of the instance's own authentication mode are all non-empty
ModeComplete(instance) ==
    \/ /\ instance.AuthType = "token"
       /\ instance.Email # <<>>
       /\ instance.APIToken # <<>>
    \/ /\ instance.AuthType = "oauth"
       /\ instance.OAuthClientID # <<>>
       /\ instance.OAuthSecret # <<>>
       /\ instance.OAuthToken # <<>>
       /\ instance.OAuthRefresh # <<>>
       /\ instance.OAuthExpiry # <<>>

\* the instance with the fields of the other mode emptied
OwnModeOnly(instance) ==
    IF instance.AuthType = "token"
    THEN [instance EXCEPT !.OAuthClientID = <<>>, !.OAuthSecret = <<>>,
                          !.OAuthToken = <<>>, !.OAuthRefresh = <<>>,
                          !.OAuthExpiry = <<>>]
    ELSE IF instance.AuthType = "oauth"
    THEN [instance EXCEPT !.Email = <<>>, !.APIToken = <<>>]
    ELSE instance

\* C16: NewClientWithCache returns a client and no error iff the auth type
\* is token or oauth and every field of that mode is non-empty, otherwise
\* an error and no client; the fields of the other mode change neither the
\* outcome nor the authorization header.
C16_ConstructionValidates ==
    built.returned =>
        /\ (built.out.err = None) <=> ModeComplete(built.instance)
        /\ built.out.err # None => built.out.client = NoClient
        /\ built.out.err = None =>
              built.out.client.subdomain = built.instance.Subdomain
        /\ built.out = NewClientWithCache(OwnModeOnly(built.instance),
                                          built.useCache, built.cacheInitOK)

C16_Witness ==
    /\ built.returned
    /\ built.instance.AuthType = "oauth"
    /\ ModeComplete(built.instance)
    /\ built.instance.Email # <<>>
    /\ built.instance.APIToken = <<>>
    /\ built.out.err = None
    /\ built.out.client.authHeader = <<"Bearer ", "o">>

\* C19: a resource command run with --instance X works with the client of
\* the stored instance X and leaves the current instance as it was.
C19_InstanceFlagOverrides ==
    ( /\ run.cmd = "resource"
      /\ run.flag \in run.cfg.Instances ) =>
        /\ run.err = None
        /\ run.client.subdomain = StoredInstance(run.flag).Subdomain
        /\ run.client.authHeader =
              NewClientWithCache(StoredInstance(run.flag), TRUE,
                                 TRUE).client.authHeader
        /\ run.cfg.Current = run.before

\* C20: an operation that receives a 429 sends the request again.
C20_RateLimitRetried ==
    (apiCall.op # None /\ apiCall.status = 429) => apiCall.requests > 1

\* C17: a read that is not served from the cache (the cache could not be
\* initialised, there is no usable entry, the entry is corrupt or does not
\* decode into the result type) sends the live request and returns what a
\* cache-disabled client returns, whether or not the cache write succeeds.
C17_CacheFailureFallsBack ==
    ( /\ last.op \in ReadOps
      /\ ~(last.cacheOn /\ last.preFresh /\ last.preValue.ok) ) =>
        /\ last.http = 1
        /\ last.result = last.live.result
        /\ last.err = last.live.err

C17_Witness ==
    /\ last.op = "GetMe"
    /\ last.cacheOn
    /\ last.preFresh
    /\ ~last.preValue.ok
    /\ last.http = 1
    /\ ~last.err
    /\ last.result.v = 1
    /\ last.result = last.live.result

\* C18: every outcome PerformOAuthFlow returns is either a token without an
\* error or an error without a token; a token is returned only when a
\* callback with the issued state and a code was received, the select took
\* that code and the one exchange succeeded; an error callback, the
\* timeout, the cancellation and a failed exchange return no token.
C18_TokenIffNoError ==
    \A i \in DOMAIN outcomes :
        /\ outcomes[i].token <=> (outcomes[i].err = None)
        /\ outcomes[i].token =>
              /\ codeSeen
              /\ resolvedBy = "code"
              /\ received = "code"
              /\ exchanges = 1
        /\ resolvedBy \in {"error", "cancelled", "timeout"} =>
              (~outcomes[i].token /\ outcomes[i].err = received)
        /\ (resolvedBy = "code" /\ ~outcomes[i].token) =>
              (exchanges = 1 /\ outcomes[i].err = "exchange failed")

C18_Witness ==
    /\ mainPc = "done"
    /\ Len(outcomes) = 1
    /\ outcomes[1].token
    /\ outcomes[1].err = None
    /\ codeSeen
    /\ exchanges = 1

\* the line typed at the prompt is the word yes in any mix of cases
AnsweredYes(input) ==
    LET t == TrimSpace(input) IN
    /\ Len(t) = 3
    /\ t[1] \in {"y", "Y"}
    /\ t[2] \in {"e", "E"}
    /\ t[3] \in {"s", "S"}

\* C21: the user delete command sends the DELETE request only if --force
\* was given or the user answered yes, in any mix of cases, at the prompt;
\* otherwise it sends no request and leaves every cache entry as it was.
C21_DeleteNeedsConfirmation ==
    userDelete.ran =>
        \/ userDelete.force
        \/ /\ userDelete.prompted
           /\ ~userDelete.interrupted
           /\ AnsweredYes(userDelete.input)
        \/ /\ userDelete.http = 0
           /\ userDelete.after = userDelete.before

C21_Witness ==
    /\ userDelete.ran
    /\ ~userDelete.force
    /\ userDelete.prompted
    /\ userDelete.input = <<"n", "o">>
    /\ userDelete.http = 0
    /\ userDelete.before # <<>>
    /\ userDelete.after = userDelete.before

\* C22: for ticket create, ticket update and ticket assign, an assignee id
\* or group id of zero supplied by the caller counts as not set: the body
\* sent leaves the field out and never carries the id 0.
C22_ZeroIdOmitted ==
    ticketWrite.sent =>
        /\ (ticketWrite.assignee.set /\ ticketWrite.assignee.value = 0)
              => ~ticketWrite.body.assignee_id.present
        /\ (ticketWrite.group.set /\ ticketWrite.group.value = 0)
              => ~ticketWrite.body.group_id.present
        /\ ticketWrite.body.assignee_id.present
              => ticketWrite.body.assignee_id.v # 0
        /\ ticketWrite.body.group_id.present
              => ticketWrite.body.group_id.v # 0

\* C23: for every read method and every response body a live fetch
\* accepted, the value a following cache hit on the populated entry returns
\* equals, in every field including the next-page indicator and the count
\* of a list envelope, the value the live fetch returned.
C23_HitEqualsLive ==
    (/\ roundTrip.pc = "read"
     /\ roundTrip.first.http = 1
     /\ ~roundTrip.first.err
     /\ roundTrip.second.http = 0)
    => /\ ~roundTrip.second.err
       /\ roundTrip.second.result = roundTrip.first.result

C23_Witness ==
    /\ roundTrip.pc = "read"
    /\ roundTrip.req.op = "ListUsers"
    /\ roundTrip.first.http = 1
    /\ roundTrip.second.http = 0
    /\ roundTrip.second.result.ok
    /\ roundTrip.second.result.v = 2
    /\ roundTrip.second.result.m = <<"<", "2">>

\* C24: every request a client sends carries the authorization header fixed
\* at construction, Basic base64(email/token:apiToken) for a token instance
\* and Bearer with the stored access token for an OAuth instance, the same
\* for all requests of the client.
C24_AuthHeaderFixed ==
    \A i \in DOMAIN wire.requests :
        /\ wire.requests[i].Authorization =
              IF wire.instance.AuthType = "token"
              THEN <<"Basic ", "b64(">> \o wire.instance.Email
                   \o <<"/token:">> \o wire.instance.APIToken \o <<")">>
              ELSE <<"Bearer ">> \o wire.instance.OAuthToken
        /\ wire.requests[i].Authorization = wire.requests[1].Authorization

C24_Witness ==
    /\ Len(wire.requests) = 2
    /\ wire.instance.AuthType = "token"
    /\ wire.instance.Email = <<"a@b.com">>
    /\ wire.requests[1].path = "GetTicket"
    /\ wire.requests[2].path = "UpdateUser"
    /\ wire.requests[2].Authorization =
          <<"Basic ", "b64(", "a@b.com", "/token:", "tok123", ")">>

\* C25: when two Set calls on one key have run concurrently and both have
\* completed, the file holds the complete envelope of one of them, so a
\* following Get finds that call's payload: never a mixture, never
\* not-found.
C25_LastWriterWins ==
    (/\ \A p \in Setters : conc.procs[p].pc = "done"
     /\ conc.procs[Getter].pc = "idle")
    => /\ GetAlone(conc).found
       /\ GetAlone(conc).w \in Setters

\* C26: a Get that runs concurrently with a Set on one key returns
\* not-found or a complete payload some Set stored, and once both have
\* completed a further Get finds the payload of that Set.
C26_GetSparesEntry ==
    (/\ conc.procs[Getter].pc = "done"
     /\ conc.procs[1].pc = "done"
     /\ conc.procs[2].pc = "idle")
    => /\ conc.procs[Getter].found
            => conc.procs[Getter].w \in {Earlier, 1}
       /\ GetAlone(conc).found
       /\ GetAlone(conc).w = 1

\* C27: a read by a client of one configured instance never returns an
\* entry that a client of another configured instance stored, also when
\* the two instances use different credentials on one subdomain.
C27_InstancesIsolated ==
    shared.hit => shared.servedFrom = shared.by

\* C28: a write changes no cache entry other than the single-resource key
\* of the resource it wrote: every list, search, comments, sub-list and
\* current-user entry and every single-resource entry of another id is
\* what it was before; a create changes no entry at all.
C28_WriteFrame ==
    frame.ran =>
        /\ \A r \in FrameRequests :
              LET p == keyToPath(CacheKey(r)) IN
              (\/ frame.op \in CreateOps
               \/ r.op \notin {"GetTicket", "GetUser"}
               \/ r.id # frame.id
               \/ (r.op = "GetTicket") # (frame.op = "UpdateTicket"))
              => /\ (p \in DOMAIN frame.after) = (p \in DOMAIN frame.before)
                 /\ p \in DOMAIN frame.before
                       => frame.after[p] = frame.before[p]
        /\ DOMAIN frame.after \subseteq DOMAIN frame.before

C28_Witness ==
    /\ frame.ran
    /\ frame.op = "UpdateTicket"
    /\ frame.id = 1
    /\ ~frame.err
    /\ DOMAIN frame.before = DOMAIN Stored(FrameRequests)
    /\ DOMAIN frame.after =
          DOMAIN Stored(FrameRequests
                        \ {Request("GetTicket", Sub, 1, 0, 0, <<>>, <<>>)})

\* C29: a write that fails, by a transport error, a status outside 2xx or
\* a response that does not decode, leaves every cache entry as it was:
\* the cache is invalidated only after a successful response, and a write
\* never reads the cache.
C29_FailedWriteKeepsCache ==
    (frame.ran /\ frame.err) => frame.after = frame.before

C29_Witness ==
    /\ frame.ran
    /\ frame.err
    /\ frame.cacheOn
    /\ frame.op = "UpdateUser"
    /\ frame.id = 2
    /\ now = MaxTime
    /\ keyToPath(WriteKey("UpdateUser", Sub, 2)) \in DOMAIN frame.before
    /\ frame.after = frame.before

\* C30: every entry the client stores under a request's key is the raw
\* body of a 200 response received for that request and decoded
\* successfully, written before the read method returns; bodies of error
\* responses, of failed requests and of undecodable responses are never
\* stored.
C30_EntryIsFetchedBody ==
    \A p \in fill.changed :
        /\ p = keyToPath(fill.key)
        /\ fill.http = 1
        /\ ~fill.err
        /\ fill.resp.transport
        /\ fill.resp.status = 200
        /\ Decode(KindOf(fill.op), fill.resp.body).ok
        /\ files[p].ok
        /\ files[p].data = fill.resp.body

\* C31: a read by a client built with useCache = false sends exactly one
\* HTTP request, returns what the response of that request decodes to (or
\* an error), never a cached value, and leaves the cache directory as it
\* was: no entry is read away, written or deleted.
C31_RefreshBypassesCache ==
    (readRun.op # None /\ readRun.refresh) =>
        /\ readRun.http = 1
        /\ ~readRun.hit
        /\ files = readRun.before
        /\ ~readRun.err =>
              readRun.result =
                  Returned(readRun.op,
                           Decode(KindOf(readRun.op), readRun.resp.body))

\* a --refresh read returned a newer state than the fresh entry that stays
\* on disk
C31_Witness ==
    /\ readRun.refresh
    /\ ~readRun.err
    /\ keyToPath(readRun.key) \in DOMAIN files
    /\ files[keyToPath(readRun.key)].ok
    /\ now <= files[keyToPath(readRun.key)].expires_at
    /\ files[keyToPath(readRun.key)].data # readRun.resp.body

\* C32: once a --refresh read of a request has returned data fetched live,
\* no later cache-enabled read of that request is served from an entry
\* that was stored before the refresh.
C32_NoOlderEntryAfterRefresh == ~readRun.servedStale

\* C33: a flow started by setupOAuth or runReauth whose listener is up,
\* that receives no callback and that nobody cancels, returns the
\* authorization-timeout error.
C33_EndsInTimeout ==
    (cli.pc = "done" /\ cli.listening) => cli.outcome = "authorization timeout"

\* what the handler reports for a callback with the issued state that
\* carries an error parameter, or neither an error nor a code
RefusedVals == {"authorization failed", "no code"}

\* such a callback has been received: its report is with its handler, in
\* errChan, or has been taken by the select
RefusedCallbackSeen ==
    \/ \E h \in handlers : h.val \in RefusedVals
    \/ \E i \in DOMAIN errChan : errChan[i] \in RefusedVals
    \/ received \in RefusedVals

\* C34: a flow that has received a callback whose state matches and which
\* carries an error parameter, or neither a code nor an error, ends in
\* CallbackError and attempts no token exchange; the handler checks the
\* state, then the error, then the code.
C34_RefusedCallbackNoExchange ==
    /\ \A cb \in Callbacks :
          (cb.stateOK /\ (cb.error \/ ~cb.code)) =>
              /\ Handler(cb).chan = "err"
              /\ Handler(cb).val \in RefusedVals
    /\ RefusedCallbackSeen =>
          /\ exchanges = 0
          /\ mainPc # "exchange"

\* the part of C34 that concerns the callback the select receives
C34_ReceivedRefusalEndsFlow ==
    (received \in RefusedVals) =>
        /\ exchanges = 0
        /\ mainPc = "done" =>
              outcomes = <<[token |-> FALSE, err |-> received]>>

\* C35: no two flows are issued the same state token, whenever they are
\* started, so no flow accepts a callback that carries the state of
\* another.
C35_StateTokensDistinct ==
    /\ \A i \in DOMAIN flows.started, j \in DOMAIN flows.started :
          i # j => flows.started[i].state # flows.started[j].state
    /\ \A d \in flows.delivered : ~d.accepted

\* the message the fixed table gives for a status, as far as the table
\* says: the texts of 400, 401, 403, 404, 422 and 429, and a server error
\* or unavailable text for 5xx
FixedMessages(statusCode) ==
    CASE statusCode = 400 -> {<<"Bad Request">>}
      [] statusCode = 401 -> {<<"Authentication Failed">>}
      [] statusCode = 403 -> {<<"Access Denied">>}
      [] statusCode = 404 -> {<<"Resource Not Found">>}
      [] statusCode = 422 -> {<<"Invalid Input">>}
      [] statusCode = 429 -> {<<"Rate Limit Exceeded">>}
      [] statusCode >= 500 /\ statusCode < 600 ->
            {<<"Zendesk Server Error">>, <<"Zendesk Service Unavailable">>}
      [] OTHER -> {getStatusMessage(statusCode)}

\* C36: ParseAPIError keeps the status code; when the body decodes as an
\* error document with a non-empty error it returns the document's error
\* and description, and otherwise the fixed message of the status: the six
\* texts for 400, 401, 403, 404, 422, 429 and a server error or
\* unavailable text for every 5xx status.
C36_ParseAPIError ==
    parsed.called =>
        /\ parsed.err.StatusCode = parsed.statusCode
        /\ IF /\ UnmarshalZendeskError(parsed.body).ok
              /\ UnmarshalZendeskError(parsed.body).Error # <<>>
           THEN /\ parsed.err.Message =
                       UnmarshalZendeskError(parsed.body).Error
                /\ parsed.err.Description =
                       UnmarshalZendeskError(parsed.body).Description
           ELSE parsed.err.Message \in FixedMessages(parsed.statusCode)

\* the same with the 5xx statuses other than 500 and 503 left aside
C36_ParseAPIErrorTable ==
    (parsed.called /\ parsed.statusCode \notin {502, 504}) =>
        C36_ParseAPIError

\* the last result of fn is a 429 whose Retry-After header Atoi accepts
UsableRetryAfter(r) ==
    r.callErr = Err("HTTP", 429) /\ r.header # <<>> /\ Atoi(r.header).ok

\* C37: when fn has failed for the k-th time (k = 0, 1, 2) with a transport
\* error, a 5xx status or a 429 without a usable Retry-After header, the
\* helper waits min(InitialBackoff * 2^k, MaxBackoff) before the next
\* attempt; no wait is longer than MaxBackoff; and a response with a status
\* below 500 other than 429 is returned at once.
C37_ExponentialBackoff ==
    [][ (retry'.calls = retry.calls + 1) =>
          /\ retry'.pc = "wait" => retry'.wait <= MaxBackoff * Second
          /\ IF retry'.callErr = NoErr
             THEN /\ retry'.pc = "done"
                  /\ retry'.status < 500 /\ retry'.status # 429
                  /\ retry'.out =
                        [returned |-> TRUE, resp |-> retry'.status,
                         err |-> NoErr, wraps |-> NoErr]
             ELSE (~UsableRetryAfter(retry') /\ retry.attempt < MaxRetries) =>
                     /\ retry'.pc = "wait"
                     /\ retry'.waitKind = "backoff"
                     /\ retry'.wait =
                           Min(InitialBackoff * Pow2(retry.attempt),
                               MaxBackoff) * Second ]_vars

\* the helper waits four seconds after the third failure, a 503
C37_Witness ==
    /\ retry.pc = "wait"
    /\ retry.waitKind = "backoff"
    /\ retry.calls = 3
    /\ retry.status = 503
    /\ retry.wait = 4 * Second

\* C38: when fn has been invoked MaxRetries + 1 times and the last
\* invocation has failed, the helper does not wait again: it is never in a
\* wait with MaxRetries + 1 invocations made.
C38_NoWaitAfterLastAttempt ==
    retry.pc = "wait" => retry.calls <= MaxRetries

\* C39: after any sequence of AddInstance, AddInstanceAndSwitch,
\* RemoveInstance and SwitchInstance on a new Config, Current is empty
\* exactly when there is no instance and otherwise names a stored
\* instance; RemoveInstance changes Current only when it removed the
\* current instance.
C39_CurrentNamesAnInstance ==
    /\ config.cfg.Current = "" <=> config.cfg.Instances = {}
    /\ config.cfg.Current # "" => config.cfg.Current \in config.cfg.Instances
    /\ ( /\ config.op = "RemoveInstance"
         /\ config.cfg.Current # config.before.Current ) =>
            /\ config.err = None
            /\ config.name = config.before.Current

\* the current instance was removed and another one took its place
C39_Witness ==
    /\ config.op = "RemoveInstance"
    /\ config.err = None
    /\ config.name = config.before.Current
    /\ config.cfg.Current \in config.cfg.Instances
    /\ config.cfg.Instances # config.before.Instances

\* the error each method returns for the name it is given
ConfigError(op, before, name) ==
    CASE op \in {"AddInstance", "AddInstanceAndSwitch"} ->
            IF name = "" THEN "invalid instance name"
            ELSE IF name \in before.Instances THEN "instance exists"
            ELSE None
      [] op \in {"RemoveInstance", "SwitchInstance"} ->
            IF name \notin before.Instances THEN "instance not found"
            ELSE None
      [] OTHER -> None

\* C40: AddInstance and AddInstanceAndSwitch with an empty or a used name,
\* and RemoveInstance and SwitchInstance with an unknown name, return
\* their error and leave Instances and Current as they were.
C40_FailedCallChangesNothing ==
    /\ config.err = ConfigError(config.op, config.before, config.name)
    /\ config.err # None => config.cfg = config.before

\* a switch to an unknown name was refused on a Config that has a current
\* instance
C40_Witness ==
    /\ config.op = "SwitchInstance"
    /\ config.err = "instance not found"
    /\ config.before.Current # ""
    /\ config.cfg = config.before

====
